---- MODULE Spec2Model ----
(***************************************************************************)
(* Model of the domain-base-hunter API server (src/server/index.js):       *)
(*   - the schema metadata cache (getDomainsTableMeta),                    *)
(*   - the column roles and feature flags of GET /api/capabilities,        *)
(*   - the column role resolver and the criteria-to-SQL compiler of        *)
(*     POST /api/domains/search,                                           *)
(*   - the verification orchestrator of POST /api/domains/check with the   *)
(*     Spamhaus token cache and the 15 minute result cache.                *)
(*   - one remote call through withTimeout / fetchJsonWithRetry and the    *)
(*     awaits of a search request on the database.                         *)
(*                                                                         *)
(* Text is modelled with TLA+ strings: TLC evaluates Len, \o, SubSeq, Head *)
(* and Tail on strings, so SQL text, identifiers and criteria values are   *)
(* the strings the program builds.                                         *)
(***************************************************************************)
EXTENDS Integers, Sequences, FiniteSets, TLC

VARIABLES
    meta,                    \* search: TableMetadata the handler got from getDomainsTableMeta
    search,                  \* search: last request body and what the handler compiled / answered
    capabilities,            \* capabilities: what GET /api/capabilities answered on the same metadata
    domainsTableMetaPromise, \* metadata cache: the memoized promise (line 43)
    catalogQueries,          \* metadata cache: number of information_schema.columns queries issued
    catalogOutcome,          \* metadata cache: what the database answers to the catalog query
    caller,                  \* metadata cache: per caller, position and the metadata it received
    now,                     \* check: Date.now() in ms
    cfg,                     \* check: which Spamhaus credentials the environment configures
    checkCache,              \* check: domain -> none or { ts, value } (line 325)
    spamhausIntelAuth,       \* check: null or { token, expiresAtMs } (line 328)
    req,                     \* check: per request slot, position and locals of the handler
    ticks,                   \* check: number of clock advances so far
    logins,                  \* check: number of login calls issued so far
    arrivals,                \* check: number of check requests received so far
    lastEvent,               \* check: what the last step of the check subsystem did
    reauthDue,               \* check: history, a 401/403 cleared the token and no check has
                             \*        reached the Spamhaus branch since
    fetch,                   \* remote call: position and locals of one fetchJsonWithRetry call,
                             \*        its outbound requests in flight and what its attempts met
    dbq                      \* search: position of a search request between its two queries

searchVars == <<meta, search, capabilities>>
metaVars   == <<domainsTableMetaPromise, catalogQueries, catalogOutcome, caller>>
checkVars  == <<now, ticks, cfg, checkCache, spamhausIntelAuth, req, logins, arrivals, lastEvent, reauthDue>>
awaitVars  == <<fetch, dbq>>
vars       == <<meta, search, capabilities, domainsTableMetaPromise, catalogQueries, catalogOutcome, caller,
                now, ticks, cfg, checkCache, spamhausIntelAuth, req, logins, arrivals, lastEvent,
                reauthDue, fetch, dbq>>

-----------------------------------------------------------------------------
(* Strings *)

Q == "\""

CharAt(s, i) == SubSeq(s, i, i)

\* the lowercase letter of each uppercase letter
LowerMap ==
    "A" :> "a" @@ "B" :> "b" @@ "C" :> "c" @@ "D" :> "d" @@ "E" :> "e" @@ "F" :> "f" @@ "G" :> "g"
    @@ "H" :> "h" @@ "I" :> "i" @@ "J" :> "j" @@ "K" :> "k" @@ "L" :> "l" @@ "M" :> "m" @@ "N" :> "n"
    @@ "O" :> "o" @@ "P" :> "p" @@ "Q" :> "q" @@ "R" :> "r" @@ "S" :> "s" @@ "T" :> "t" @@ "U" :> "u"
    @@ "V" :> "v" @@ "W" :> "w" @@ "X" :> "x" @@ "Y" :> "y" @@ "Z" :> "z"

\* String.prototype.toLowerCase on one character
ToLowerChar(c) == IF c \in DOMAIN LowerMap THEN LowerMap[c] ELSE c

RECURSIVE ToLower(_)
ToLower(s) == IF s = "" THEN "" ELSE ToLowerChar(Head(s)) \o ToLower(Tail(s))

\* s.includes(p) / an unanchored regex of one literal alternative
Contains(s, p) == \E i \in 1..(Len(s) + 1) : i + Len(p) - 1 <= Len(s) /\ SubSeq(s, i, i + Len(p) - 1) = p

\* an unanchored regex /(p1|p2|...)/ tested on s
MatchesAny(s, alts) == \E p \in alts : Contains(s, p)

StartsWith(s, p) == Len(p) <= Len(s) /\ SubSeq(s, 1, Len(p)) = p

IsSpace(c) == c = " "

RECURSIVE TrimLeft(_)
TrimLeft(s) == IF s # "" /\ IsSpace(Head(s)) THEN TrimLeft(Tail(s)) ELSE s

RECURSIVE TrimRight(_)
TrimRight(s) ==
    IF s # "" /\ IsSpace(CharAt(s, Len(s))) THEN TrimRight(SubSeq(s, 1, Len(s) - 1)) ELSE s

\* String.prototype.trim
Trim(s) == TrimRight(TrimLeft(s))

\* s.replaceAll(a, b) for a single character a
RECURSIVE ReplaceAllChar(_, _, _)
ReplaceAllChar(s, a, b) ==
    IF s = "" THEN ""
    ELSE (IF Head(s) = a THEN b ELSE Head(s)) \o ReplaceAllChar(Tail(s), a, b)

RECURSIVE Join(_, _)
Join(parts, sep) ==
    IF Len(parts) = 0 THEN ""
    ELSE IF Len(parts) = 1 THEN parts[1]
    ELSE parts[1] \o sep \o Join(Tail(parts), sep)

-----------------------------------------------------------------------------
(* JavaScript values of a JSON request body.  Numbers are kept in tenths   *)
(* (n = 10 * value) so that Math.trunc is not the identity.                *)

Undefined == [t |-> "undefined"]
Null      == [t |-> "null"]
Str(s)    == [t |-> "string", s |-> s]
Num(n10)  == [t |-> "number", nan |-> FALSE, n |-> n10]
NaN       == [t |-> "number", nan |-> TRUE, n |-> 0]
Bool(b)   == [t |-> "boolean", b |-> b]

DigitMap ==
    "0" :> 0 @@ "1" :> 1 @@ "2" :> 2 @@ "3" :> 3 @@ "4" :> 4
    @@ "5" :> 5 @@ "6" :> 6 @@ "7" :> 7 @@ "8" :> 8 @@ "9" :> 9
IsDigit(c) == c \in DOMAIN DigitMap
DigitVal(c) == DigitMap[c]

RECURSIVE DigitsVal(_, _)
DigitsVal(s, acc) == IF s = "" THEN acc ELSE DigitsVal(Tail(s), 10 * acc + DigitVal(Head(s)))

AllDigits(s) == \A i \in 1..Len(s) : IsDigit(CharAt(s, i))

\* the position of the first "." of s, or 0
DotPos(s) == IF Contains(s, ".") THEN CHOOSE i \in 1..Len(s) :
                                          CharAt(s, i) = "." /\ \A j \in 1..(i - 1) : CharAt(s, j) # "."
             ELSE 0

\* Number(<unsigned decimal literal with at most one fraction digit>), in tenths; NaN otherwise
UnsignedTenths(s) ==
    LET d == DotPos(s)
        ip == IF d = 0 THEN s ELSE SubSeq(s, 1, d - 1)
        fp == IF d = 0 THEN "" ELSE SubSeq(s, d + 1, Len(s))
    IN  IF s = "" \/ s = "." \/ ~AllDigits(ip) \/ ~AllDigits(fp) \/ Len(fp) > 1 THEN NaN
        ELSE Num(10 * DigitsVal(ip, 0) + DigitsVal(fp, 0))

\* Number(v) of a string: whitespace trimmed, "" is 0, a decimal literal is its value, else NaN
StringToNumber(s) ==
    LET x == Trim(s)
    IN  IF x = "" THEN Num(0)
        ELSE IF Head(x) = "-"
             THEN LET u == UnsignedTenths(Tail(x)) IN IF u.nan THEN NaN ELSE Num(0 - u.n)
             ELSE UnsignedTenths(x)

\* Number(v)
ToNumber(v) ==
    CASE v.t = "undefined" -> NaN
      [] v.t = "null"      -> Num(0)
      [] v.t = "boolean"   -> IF v.b THEN Num(10) ELSE Num(0)
      [] v.t = "number"    -> v
      [] v.t = "string"    -> StringToNumber(v.s)

IsFinite(x) == ~x.nan

\* Math.trunc, on tenths, giving a whole number
Trunc(n10) == IF n10 >= 0 THEN n10 \div 10 ELSE 0 - ((0 - n10) \div 10)

Max(a, b) == IF a >= b THEN a ELSE b
Min(a, b) == IF a <= b THEN a ELSE b

\* String(n) for a number kept in tenths
NumberToString(n10) ==
    LET a == IF n10 < 0 THEN 0 - n10 ELSE n10
        body == ToString(a \div 10) \o (IF a % 10 = 0 THEN "" ELSE "." \o ToString(a % 10))
    IN  IF n10 < 0 THEN "-" \o body ELSE body

\* String(v)
ToStr(v) ==
    CASE v.t = "undefined" -> "undefined"
      [] v.t = "null"      -> "null"
      [] v.t = "boolean"   -> IF v.b THEN "true" ELSE "false"
      [] v.t = "number"    -> IF v.nan THEN "NaN" ELSE NumberToString(v.n)
      [] v.t = "string"    -> v.s

-----------------------------------------------------------------------------
(* Helpers of src/server/index.js.  A null string result is written ""     *)
(* (every non-null result of these helpers is a non-empty string, and the  *)
(* callers test the result for truthiness, where null and "" agree).       *)

NoString == ""

clampIntMutNoClamp(v, min, max, fallback) ==
    LET n == ToNumber(v) IN IF ~IsFinite(n) THEN fallback ELSE Trunc(n.n)

clampInt(v, min, max, fallback) ==
    LET n == ToNumber(v)
    IN  IF ~IsFinite(n) THEN fallback ELSE Min(max, Max(min, Trunc(n.n)))

normalizeString(v) ==
    IF v.t \in {"undefined", "null"} THEN NoString ELSE Trim(ToStr(v))

IsListSep(c) == c = "," \/ c = " "

\* s.split(/[,\s]+/g).map(trim).filter(Boolean)
RECURSIVE SplitOnSeps(_, _, _)
SplitOnSeps(s, cur, acc) ==
    IF s = "" THEN (IF cur = "" THEN acc ELSE Append(acc, cur))
    ELSE IF IsListSep(Head(s))
         THEN SplitOnSeps(Tail(s), "", IF cur = "" THEN acc ELSE Append(acc, cur))
         ELSE SplitOnSeps(Tail(s), cur \o Head(s), acc)

splitList(v) ==
    LET s == normalizeString(v) IN IF s = NoString THEN <<>> ELSE SplitOnSeps(s, "", <<>>)

quoteIdentMutNoEscape(id) == Q \o id \o Q

quoteIdent(id) == Q \o ReplaceAllChar(id, Q, Q \o Q) \o Q

\* parseTableRef(DOMAINS_TABLE) with the default DOMAINS_TABLE
TableRef == [schema |-> "public", table |-> "expired_domains"]

quoteTable(ref) == quoteIdent(ref.schema) \o "." \o quoteIdent(ref.table)

-----------------------------------------------------------------------------
(* Table metadata and the column role resolver *)

Col(name, type) == [column_name |-> name, data_type |-> type]

\* lines 58-59: byName maps each lowercased column name to its column; Map.set overwrites,
\* so of several columns with one lowercased name the last is kept
RECURSIVE ByName(_)
ByName(columns) ==
    IF Len(columns) = 0 THEN <<>>
    ELSE LET c == columns[Len(columns)]
             rest == ByName(SubSeq(columns, 1, Len(columns) - 1))
         IN  (ToLower(c.column_name) :> c) @@ rest

\* the metadata object of line 60 (tableSql is derived from tableRef where it is used)
Meta(columns) == [tableRef |-> TableRef, columns |-> columns, byName |-> ByName(columns)]

\* meta.byName.has(key)
ByNameHas(m, key) == key \in DOMAIN m.byName

\* meta.byName.get(key)
ByNameGet(m, key) == m.byName[key]

has(m, name) == ByNameHas(m, ToLower(name))

\* String(name).toLowerCase() of every candidate name of a list (line 71)
RECURSIVE CandidateKeys(_)
CandidateKeys(candidates) ==
    IF Len(candidates) = 0 THEN <<>> ELSE <<ToLower(Head(candidates))>> \o CandidateKeys(Tail(candidates))

\* findFirstColumn on the lowercased candidate names
RECURSIVE findFirstColumn(_, _)
findFirstColumn(m, keys) ==
    IF Len(keys) = 0 THEN NoString
    ELSE IF ByNameHas(m, Head(keys)) THEN ByNameGet(m, Head(keys)).column_name
    ELSE findFirstColumn(m, Tail(keys))

\* columns in catalog order whose lowercased name matches; a role's fallback regex is the
\* set of its literal alternatives
RECURSIVE findColumnsLike(_, _)
findColumnsLike(columns, re) ==
    IF Len(columns) = 0 THEN <<>>
    ELSE (IF \E name \in {ToLower(Head(columns).column_name)} : MatchesAny(name, re)
          THEN <<Head(columns).column_name>> ELSE <<>>)
         \o findColumnsLike(Tail(columns), re)

NoRegex == {}

FirstOrNone(names) == IF Len(names) = 0 THEN NoString ELSE names[1]

pickMutRegexFirst(m, keys, fallbackRe) ==
    LET r == IF fallbackRe # NoRegex THEN FirstOrNone(findColumnsLike(m.columns, fallbackRe)) ELSE NoString
    IN  IF r # NoString THEN r ELSE findFirstColumn(m, keys)

\* lines 473-474
pick(m, keys, fallbackRe) ==
    LET c == findFirstColumn(m, keys)
    IN  IF c # NoString THEN c
        ELSE IF fallbackRe # NoRegex THEN FirstOrNone(findColumnsLike(m.columns, fallbackRe))
        ELSE NoString

domainCandidates == CandidateKeys(<<"domain", "hostname", "host", "name">>)
tldCandidates == CandidateKeys(<<"tld", "zone", "tld_suffix">>)
createdCandidates ==
    CandidateKeys(<<"domain_creation_date", "creation_date", "created_at", "registered_at", "registration_date">>)
expiresCandidates ==
    CandidateKeys(<<"domain_expiration_date", "expiration_date", "expires_at", "expires_on", "expiry_date",
                    "expire_date">>)
scheduledDeleteCandidates ==
    CandidateKeys(<<"drop_date", "delete_date", "deletion_date", "pending_delete_date", "scheduled_delete_date">>)
deletedAtCandidates == CandidateKeys(<<"deleted_at", "dropped_at", "removed_at">>)
deletedFlagCandidates ==
    CandidateKeys(<<"is_deleted", "deleted", "is_dropped", "dropped", "is_removed", "removed">>)
statusCandidates == CandidateKeys(<<"status", "domain_status", "state", "domain_state", "lifecycle">>)
waybackCandidates == CandidateKeys(<<"wayback_snapshots", "wayback_total", "wayback_count">>)
spamhausCandidates == CandidateKeys(<<"spamhaus_listed", "spamhouse_listed", "spamhaus", "spamhouse">>)
viewsTotalCandidates ==
    CandidateKeys(<<"views_total_listed", "viewstotal_listed", "views_total", "viewstotal">>)

domainColumn(m) == pick(m, domainCandidates, {"domain"})
tldColumn(m) == pick(m, tldCandidates, NoRegex)
createdColumn(m) == pick(m, createdCandidates, {"creation", "created", "registered", "registration"})
expiresColumn(m) == pick(m, expiresCandidates, {"expiration", "expire", "expires", "expiry"})
scheduledDeleteColumn(m) == pick(m, scheduledDeleteCandidates, {"drop", "delete", "deletion"})
deletedAtColumn(m) == pick(m, deletedAtCandidates, NoRegex)
deletedFlagColumn(m) == pick(m, deletedFlagCandidates, NoRegex)
statusColumn(m) == pick(m, statusCandidates, NoRegex)

\* the search endpoint's own resolution of the three reputation columns (lines 661-691)
waybackColumn(m) == pick(m, waybackCandidates, {"wayback", "archive"})
spamhausColumn(m) == pick(m, spamhausCandidates, {"spamhaus", "spamhouse"})
viewsTotalColumn(m) == pick(m, viewsTotalCandidates, {"viewstotal", "views_total"})

\* lines 476-495 and 661-691: the columns the search endpoint resolves, once per request
Roles(m) ==
    [domainColumn |-> domainColumn(m), tldColumn |-> tldColumn(m), createdColumn |-> createdColumn(m),
     expiresColumn |-> expiresColumn(m), scheduledDeleteColumn |-> scheduledDeleteColumn(m),
     deletedAtColumn |-> deletedAtColumn(m), deletedFlagColumn |-> deletedFlagColumn(m),
     statusColumn |-> statusColumn(m), waybackColumn |-> waybackColumn(m),
     spamhausColumn |-> spamhausColumn(m), viewsTotalColumn |-> viewsTotalColumn(m)]

-----------------------------------------------------------------------------
(* SQL text.  A statement is a sequence of tokens: literal SQL text of the *)
(* program ("sql"), the text the program puts where a column or table name *)
(* goes ("id"), and a positional placeholder $n ("ph").  Render gives the  *)
(* statement's text.  Line breaks and indentation of the template strings  *)
(* are written as single spaces.                                           *)

T(s)  == [k |-> "sql", s |-> s, n |-> 0]
Id(s) == [k |-> "id", s |-> s, n |-> 0]
Ph(n) == [k |-> "ph", s |-> "$" \o ToString(n), n |-> n]

RECURSIVE Render(_)
Render(toks) == IF Len(toks) = 0 THEN "" ELSE Head(toks).s \o Render(Tail(toks))

\* bound parameter values
PText(s) == [p |-> "text", s |-> s]
PInt(n)  == [p |-> "int", n |-> n]
PNum(x)  == [p |-> "number", x |-> x]
PArr(a)  == [p |-> "text[]", a |-> a]

(* A WHERE fragment: its tokens, and its meaning on a row as a possibly    *)
(* negated disjunction of named atomic conditions.                         *)
Frag(neg, atoms, toks) == [neg |-> neg, atoms |-> atoms, toks |-> toks]

\* add(fragment, ...vals)
add(acc, fragment, vals) == [where |-> Append(acc.where, fragment), values |-> acc.values \o vals]

NextPhMutOffByOne(acc) == Ph(Len(acc.values) + 2)

\* $${values.length + 1}
NextPh(acc) == Ph(Len(acc.values) + 1)

CriteriaKeys ==
    {"domainStartsWith", "domainEndsWith", "tld", "lifecycleState", "expiredState", "expiringWithinDays",
     "creationDateFrom", "creationDateTo", "ageYearsFrom", "ageYearsTo", "countryByIp",
     "registrarContains", "technologiesContains", "responseStatusContains", "detectedHostsMin",
     "detectedHostsMax", "expirationFrom", "expirationTo", "waybackMinSnapshots", "safeSpamhausOnly",
     "safeViewsTotalOnly"}

EmptyCriteria == [k \in CriteriaKeys |-> Undefined]

\* lines 508-512
AddDomainAffixes(acc0, m, cols, criteria) ==
    LET dc == cols.domainColumn
        domainStartsWith == normalizeString(criteria["domainStartsWith"])
        domainEndsWith == normalizeString(criteria["domainEndsWith"])
        acc1 == IF domainStartsWith # NoString
                THEN add(acc0, Frag(FALSE, <<"domainStartsWith">>, <<Id(quoteIdent(dc)), T(" ILIKE "), NextPh(acc0)>>),
                         <<PText(domainStartsWith \o "%")>>)
                ELSE acc0
    IN  IF domainEndsWith # NoString
        THEN add(acc1, Frag(FALSE, <<"domainEndsWith">>, <<Id(quoteIdent(dc)), T(" ILIKE "), NextPh(acc1)>>),
                 <<PText("%" \o domainEndsWith)>>)
        ELSE acc1

\* String(t).trim().replace(/^\./, '').toLowerCase(), then `%.${x}`
TldPattern(t) ==
    LET x0 == Trim(t)
        x1 == IF StartsWith(x0, ".") THEN Tail(x0) ELSE x0
    IN  "%." \o ToLower(x1)

\* lines 514-526
AddTld(acc, m, cols, criteria) ==
    LET tlds == splitList(criteria["tld"])
    IN  IF Len(tlds) = 0 THEN acc
        ELSE IF cols.tldColumn # NoString
             THEN add(acc, Frag(FALSE, <<"tldExact">>,
                                <<Id(quoteIdent(cols.tldColumn)), T(" = ANY("), NextPh(acc), T("::text[])")>>),
                      <<PArr(tlds)>>)
             ELSE add(acc, Frag(FALSE, <<"tldSuffix">>,
                                <<T("LOWER("), Id(quoteIdent(cols.domainColumn)), T(") LIKE ANY("), NextPh(acc),
                                  T("::text[])")>>),
                      <<PArr([i \in 1..Len(tlds) |-> TldPattern(tlds[i])])>>)

NoFrag == Frag(FALSE, <<>>, <<>>)
IsFrag(f) == Len(f.toks) > 0

\* criteria.lifecycleState ?? criteria.expiredState, normalized and lowercased (lines 530-531)
lifecycleOf(criteria) ==
    LET raw == IF criteria["lifecycleState"].t \in {"undefined", "null"}
               THEN criteria["expiredState"] ELSE criteria["lifecycleState"]
    IN  ToLower(normalizeString(raw))

DefaultDays == 30

daysOfMutNoClamp(criteria) ==
    LET daysNum == ToNumber(criteria["expiringWithinDays"])
    IN  IF IsFinite(daysNum) THEN Trunc(daysNum.n) ELSE DefaultDays

\* lines 533-535
daysOf(criteria) ==
    LET daysNum == ToNumber(criteria["expiringWithinDays"])
    IN  IF IsFinite(daysNum) THEN Max(1, Trunc(daysNum.n)) ELSE DefaultDays

\* lines 543-549: the clauses of deletedFragment taken from the deleted-flag and deleted-at columns
deletedClauses(m, cols) ==
    LET flag == cols.deletedFlagColumn
        at == cols.deletedAtColumn
        flagSql == Id(quoteIdent(flag))
        c1 == IF flag = NoString THEN <<>>
              ELSE IF ByNameGet(m, ToLower(flag)).data_type = "boolean"
                   THEN << Frag(FALSE, <<"flagTrue">>, <<flagSql, T(" IS TRUE")>>) >>
                   ELSE << Frag(FALSE, <<"flagTrue">>,
                                <<T("COALESCE(NULLIF("), flagSql, T("::text, ''), '0')::int > 0")>>) >>
        c2 == IF at = NoString THEN <<>>
              ELSE << Frag(FALSE, <<"deletedAtSet">>,
                           <<T("NULLIF("), Id(quoteIdent(at)), T("::text, '') IS NOT NULL")>>) >>
    IN  c1 \o c2

\* `(${deletedClauses.join(' OR ')})`
RECURSIVE JoinOr(_)
JoinOr(clauses) ==
    IF Len(clauses) = 1 THEN clauses[1].toks
    ELSE clauses[1].toks \o <<T(" OR ")>> \o JoinOr(Tail(clauses))

RECURSIVE AtomsOf(_)
AtomsOf(clauses) == IF Len(clauses) = 0 THEN <<>> ELSE clauses[1].atoms \o AtomsOf(Tail(clauses))

DeletedPatterns  == <<"%deleted%", "%dropped%", "%removed%">>
ExpiringPatterns == <<"%expir%", "%pending%", "%to_delete%">>
ActivePatterns   == <<"active", "ok", "registered", "%active%">>

\* `${statusColSql}::text ILIKE ANY($n::text[])`
StatusLike(m, cols, atom, ph) ==
    Frag(FALSE, <<atom>>, <<Id(quoteIdent(cols.statusColumn)), T("::text ILIKE ANY("), ph, T("::text[])")>>)

\* the date window of the expiring state on column col (lines 566-574)
Window(col, atom, ph) ==
    Frag(FALSE, <<atom>>,
         <<T("NULLIF("), Id(quoteIdent(col)), T("::text, '')::timestamp >= NOW() AND NULLIF("),
           Id(quoteIdent(col)), T("::text, '')::timestamp < (NOW() + ("), ph, T("::int || ' days')::interval)")>>)

\* lines 552-556 without the status fallback
deletedStatusStepMutNoFallback(acc, m, cols) == [acc |-> acc, frag |-> NoFrag]

\* lines 552-556: the status-pattern fallback; the fragment is added to WHERE as it is built
deletedStatusStep(acc, m, cols) ==
    IF Len(deletedClauses(m, cols)) = 0 /\ cols.statusColumn # NoString
    THEN LET f == StatusLike(m, cols, "statusDeleted", NextPh(acc))
         IN  [acc |-> add(acc, f, <<PArr(DeletedPatterns)>>), frag |-> f]
    ELSE [acc |-> acc, frag |-> NoFrag]

\* line 558
deletedFragment(m, cols, deletedStatusFragment) ==
    LET dc == deletedClauses(m, cols)
    IN  IF Len(dc) > 0
        THEN Frag(FALSE, AtomsOf(dc), <<T("(")>> \o JoinOr(dc) \o <<T(")")>>)
        ELSE deletedStatusFragment

\* line 559
notDeletedFragment(df) ==
    IF IsFrag(df) THEN Frag(~df.neg, df.atoms, <<T("NOT (")>> \o df.toks \o <<T(")")>>) ELSE NoFrag

AddIfFrag(acc, f) == IF IsFrag(f) THEN add(acc, f, <<>>) ELSE acc

\* lines 563-577
AddExpiring(acc0, m, cols, criteria, ndf) ==
    LET acc == AddIfFrag(acc0, ndf)
        days == daysOf(criteria)
    IN  IF cols.scheduledDeleteColumn # NoString
        THEN add(acc, Window(cols.scheduledDeleteColumn, "schedInWindow", NextPh(acc)), <<PInt(days)>>)
        ELSE IF cols.expiresColumn # NoString
        THEN add(acc, Window(cols.expiresColumn, "expInWindow", NextPh(acc)), <<PInt(days)>>)
        ELSE IF cols.statusColumn # NoString
        THEN add(acc, StatusLike(m, cols, "statusExpiring", NextPh(acc)), <<PArr(ExpiringPatterns)>>)
        ELSE acc

\* lines 578-584
AddActive(acc0, m, cols, ndf) ==
    LET acc1 == AddIfFrag(acc0, ndf)
        acc2 == IF cols.expiresColumn # NoString
                THEN add(acc1, Frag(FALSE, <<"expiresGeNow">>,
                                    <<T("NULLIF("), Id(quoteIdent(cols.expiresColumn)),
                                      T("::text, '')::timestamp >= NOW()")>>), <<>>)
                ELSE acc1
    IN  IF cols.statusColumn # NoString
        THEN add(acc2, StatusLike(m, cols, "statusActive", NextPh(acc2)), <<PArr(ActivePatterns)>>)
        ELSE acc2

\* lines 528-585
AddLifecycle(acc0, m, cols, criteria) ==
    LET lifecycle == lifecycleOf(criteria)
        st == deletedStatusStep(acc0, m, cols)
        df == deletedFragment(m, cols, st.frag)
        ndf == notDeletedFragment(df)
    IN  IF lifecycle = NoString THEN acc0
        ELSE IF lifecycle = "deleted" THEN AddIfFrag(st.acc, df)
        ELSE IF lifecycle = "expiring" THEN AddExpiring(st.acc, m, cols, criteria, ndf)
        ELSE IF lifecycle = "active" THEN AddActive(st.acc, m, cols, ndf)
        ELSE st.acc

\* NULLIF("col"::text, '')::<cast> <op> $n
CastCompare(col, cast, op, ph, atom) ==
    Frag(FALSE, <<atom>>, <<T("NULLIF("), Id(quoteIdent(col)), T("::text, '')::" \o cast \o " " \o op \o " "), ph>>)

\* lines 587-595
AddCreationDates(acc0, m, cols, criteria) ==
    LET cc == cols.createdColumn
        creationDateFrom == normalizeString(criteria["creationDateFrom"])
        creationDateTo == normalizeString(criteria["creationDateTo"])
        acc1 == IF creationDateFrom # NoString /\ cc # NoString
                THEN add(acc0, CastCompare(cc, "date", ">=", NextPh(acc0), "createdFrom"), <<PText(creationDateFrom)>>)
                ELSE acc0
    IN  IF creationDateTo # NoString /\ cc # NoString
        THEN add(acc1, CastCompare(cc, "date", "<=", NextPh(acc1), "createdTo"), <<PText(creationDateTo)>>)
        ELSE acc1

\* NULLIF("col"::text, '')::date <op> (CURRENT_DATE - ($n::int || ' years')::interval)
AgeCompare(col, op, ph, atom) ==
    Frag(FALSE, <<atom>>,
         <<T("NULLIF("), Id(quoteIdent(col)), T("::text, '')::date " \o op \o " (CURRENT_DATE - ("), ph,
           T("::int || ' years')::interval)")>>)

\* ageYears != null && ageYears !== '' ? Number(ageYears) : null; null is written NaN here,
\* Number.isFinite being the only use of the result
AgeNumber(v) == LET x == normalizeString(v) IN IF x = NoString THEN NaN ELSE StringToNumber(x)

\* lines 597-625 without the swap of lines 605-609
AddAgeRangeMutNoSwap(acc0, m, cols, criteria) ==
    LET cc == cols.createdColumn
        aFrom == AgeNumber(criteria["ageYearsFrom"])
        aTo == AgeNumber(criteria["ageYearsTo"])
        acc1 == IF IsFinite(aFrom)
                THEN add(acc0, AgeCompare(cc, "<=", NextPh(acc0), "ageMin"), <<PInt(Max(0, Trunc(aFrom.n)))>>)
                ELSE acc0
    IN  IF cc = NoString THEN acc0
        ELSE IF IsFinite(aTo)
             THEN add(acc1, AgeCompare(cc, ">=", NextPh(acc1), "ageMax"), <<PInt(Max(0, Trunc(aTo.n)))>>)
             ELSE acc1

\* lines 597-625
AddAgeRange(acc0, m, cols, criteria) ==
    LET cc == cols.createdColumn
        aFrom == AgeNumber(criteria["ageYearsFrom"])
        aTo == AgeNumber(criteria["ageYearsTo"])
        hasMin == IsFinite(aFrom)
        hasMax == IsFinite(aTo)
        min0 == IF hasMin THEN Max(0, Trunc(aFrom.n)) ELSE 0
        max0 == IF hasMax THEN Max(0, Trunc(aTo.n)) ELSE 0
        swap == hasMin /\ hasMax /\ min0 > max0
        minYears == IF swap THEN max0 ELSE min0
        maxYears == IF swap THEN min0 ELSE max0
        acc1 == IF hasMin
                THEN add(acc0, AgeCompare(cc, "<=", NextPh(acc0), "ageMin"), <<PInt(minYears)>>)
                ELSE acc0
    IN  IF cc = NoString \/ ~(hasMin \/ hasMax) THEN acc0
        ELSE IF hasMax
             THEN add(acc1, AgeCompare(cc, ">=", NextPh(acc1), "ageMax"), <<PInt(maxYears)>>)
             ELSE acc1

\* one fixed-name filter: `name op $n`, the column name written into the SQL text as it is
FixedNameFilter(acc, m, cols, name, op, val, wildcard) ==
    IF val # NoString /\ has(m, name)
    THEN add(acc, Frag(FALSE, <<name>>, <<Id(name), T(" " \o op \o " "), NextPh(acc)>>),
             <<IF wildcard THEN PText("%" \o val \o "%") ELSE PText(val)>>)
    ELSE acc

\* Number(detectedHostsMin) bound to `NULLIF(detected_hosts, '')::int op $n`
DetectedHostsFilter(acc, m, cols, op, val) ==
    IF val # NoString /\ has(m, "detected_hosts")
    THEN add(acc, Frag(FALSE, <<"detected_hosts">>,
                       <<T("NULLIF("), Id("detected_hosts"), T(", '')::int " \o op \o " "), NextPh(acc)>>),
             <<PNum(StringToNumber(val))>>)
    ELSE acc

\* lines 627-647
AddFixedNameFilters(acc0, m, cols, criteria) ==
    LET acc1 == FixedNameFilter(acc0, m, cols, "country_by_ip", "=", normalizeString(criteria["countryByIp"]), FALSE)
        acc2 == FixedNameFilter(acc1, m, cols, "registrar", "ILIKE",
                                normalizeString(criteria["registrarContains"]), TRUE)
        acc3 == FixedNameFilter(acc2, m, cols, "technologies", "ILIKE",
                                normalizeString(criteria["technologiesContains"]), TRUE)
        acc4 == FixedNameFilter(acc3, m, cols, "response_status", "ILIKE",
                                normalizeString(criteria["responseStatusContains"]), TRUE)
        acc5 == DetectedHostsFilter(acc4, m, cols, ">=", normalizeString(criteria["detectedHostsMin"]))
    IN  DetectedHostsFilter(acc5, m, cols, "<=", normalizeString(criteria["detectedHostsMax"]))

\* lines 649-657
AddExpirationDates(acc0, m, cols, criteria) ==
    LET ec == cols.expiresColumn
        expirationFrom == normalizeString(criteria["expirationFrom"])
        expirationTo == normalizeString(criteria["expirationTo"])
        acc1 == IF expirationFrom # NoString /\ ec # NoString
                THEN add(acc0, CastCompare(ec, "timestamp", ">=", NextPh(acc0), "expiresFrom"), <<PText(expirationFrom)>>)
                ELSE acc0
    IN  IF expirationTo # NoString /\ ec # NoString
        THEN add(acc1, CastCompare(ec, "timestamp", "<=", NextPh(acc1), "expiresTo"), <<PText(expirationTo)>>)
        ELSE acc1

\* lines 660-670
AddWaybackMin(acc, m, cols, criteria) ==
    LET waybackMin == normalizeString(criteria["waybackMinSnapshots"])
        wc == cols.waybackColumn
    IN  IF waybackMin # NoString /\ wc # NoString
        THEN add(acc, Frag(FALSE, <<"waybackMin">>,
                           <<T("COALESCE(NULLIF("), Id(quoteIdent(wc)), T("::text, ''), '0')::int >= "), NextPh(acc)>>),
                 <<PNum(StringToNumber(waybackMin))>>)
        ELSE acc

\* criteria.flag === true on a boolean or textual column (lines 672-700)
SafeOnlyFilter(acc, m, cols, flag, col, atom) ==
    IF flag = Bool(TRUE) /\ col # NoString
    THEN IF ByNameGet(m, ToLower(col)).data_type = "boolean"
         THEN add(acc, Frag(FALSE, <<atom>>, <<Id(quoteIdent(col)), T(" IS NOT TRUE")>>), <<>>)
         ELSE add(acc, Frag(FALSE, <<atom>>,
                            <<T("COALESCE(NULLIF("), Id(quoteIdent(col)), T("::text, ''), '0')::int <= 0")>>), <<>>)
    ELSE acc

\* lines 501-700: the WHERE fragments and bound values of a criteria object
Compile(m, cols, criteria) ==
    LET a0 == [where |-> <<>>, values |-> <<>>]
        a1 == AddDomainAffixes(a0, m, cols, criteria)
        a2 == AddTld(a1, m, cols, criteria)
        a3 == AddLifecycle(a2, m, cols, criteria)
        a4 == AddCreationDates(a3, m, cols, criteria)
        a5 == AddAgeRange(a4, m, cols, criteria)
        a6 == AddFixedNameFilters(a5, m, cols, criteria)
        a7 == AddExpirationDates(a6, m, cols, criteria)
        a8 == AddWaybackMin(a7, m, cols, criteria)
        a9 == SafeOnlyFilter(a8, m, cols, criteria["safeSpamhausOnly"], cols.spamhausColumn, "safeSpamhaus")
    IN  SafeOnlyFilter(a9, m, cols, criteria["safeViewsTotalOnly"], cols.viewsTotalColumn, "safeViewsTotal")

-----------------------------------------------------------------------------
(* The two statements of the search endpoint and its handler *)

RECURSIVE JoinToks(_, _)
JoinToks(parts, sep) ==
    IF Len(parts) = 0 THEN <<>>
    ELSE IF Len(parts) = 1 THEN parts[1]
    ELSE parts[1] \o <<T(sep)>> \o JoinToks(Tail(parts), sep)

\* meta.tableSql = quoteTable(tableRef)
tableSql(m) == <<Id(quoteIdent(m.tableRef.schema)), T("."), Id(quoteIdent(m.tableRef.table))>>

\* line 702
whereSql(where) ==
    IF Len(where) = 0 THEN <<>>
    ELSE <<T("WHERE ")>> \o JoinToks([i \in 1..Len(where) |-> where[i].toks], " AND ")

\* line 704
countSql(m, where) ==
    <<T("SELECT COUNT(*)::bigint AS total FROM ")>> \o tableSql(m) \o <<T(" ")>> \o whereSql(where) \o <<T(";")>>

SelectAs(col, alias) == IF col = NoString THEN <<>> ELSE << <<Id(quoteIdent(col)), T(" AS " \o alias)>> >>

KnownFields ==
    <<"tld_suffix", "technologies", "country_by_ip", "pr_value", "harmonic_value", "detected_hosts",
      "rdap_whois_last_data_checked", "rdap_whois_method", "domain_last_changed", "registrar",
      "response_status">>

KnownFieldKeys == CandidateKeys(KnownFields)

\* lines 720-734: has(c) tests the lowercased name, quoteIdent(c) is selected
RECURSIVE SelectKnown(_, _, _)
SelectKnown(m, names, keys) ==
    IF Len(names) = 0 THEN <<>>
    ELSE (IF ByNameHas(m, Head(keys)) THEN << <<Id(quoteIdent(Head(names)))>> >> ELSE <<>>)
         \o SelectKnown(m, Tail(names), Tail(keys))

\* lines 708-737
selectCols(m, cols) ==
    SelectAs(cols.domainColumn, "domain") \o SelectAs(cols.tldColumn, "tld")
    \o SelectAs(cols.createdColumn, "domain_creation_date") \o SelectAs(cols.expiresColumn, "domain_expiration_date")
    \o SelectAs(cols.scheduledDeleteColumn, "scheduled_delete_date") \o SelectAs(cols.statusColumn, "status")
    \o SelectAs(cols.deletedFlagColumn, "is_deleted") \o SelectAs(cols.deletedAtColumn, "deleted_at")
    \o SelectKnown(m, KnownFields, KnownFieldKeys)
    \o SelectAs(cols.waybackColumn, "wayback") \o SelectAs(cols.spamhausColumn, "spamhaus")
    \o SelectAs(cols.viewsTotalColumn, "viewstotal")

\* lines 739-747
listSql(m, cols, where, nValues) ==
    <<T(" SELECT ")>> \o JoinToks(selectCols(m, cols), ", ") \o <<T(" FROM ")>> \o tableSql(m) \o <<T(" ")>>
    \o whereSql(where)
    \o <<T(" ORDER BY "), Id(quoteIdent(cols.domainColumn)), T(" ASC LIMIT "), Ph(nValues + 1),
         T(" OFFSET "), Ph(nValues + 2), T("; ")>>

Body(page, pageSize, criteria) == [page |-> page, pageSize |-> pageSize, criteria |-> criteria]

MaxPageSize == 500
DefaultPageSize == 50
MaxPage == 1000000000

NoQuery == [where |-> <<>>, values |-> <<>>, countSql |-> <<>>, listSql |-> <<>>, listValues |-> <<>>]

\* lines 497-499 and 702-758: paging, the two statements and the response, for the resolved
\* columns cols and the compiled criteria c; db is what the database answers to the two queries
Respond(m, body, db, cols, c) ==
    LET pageSize == clampInt(body.pageSize, 1, MaxPageSize, DefaultPageSize)
        page == clampInt(body.page, 1, MaxPage, 1)
        offset == (page - 1) * pageSize
        q == [where |-> c.where, values |-> c.values, countSql |-> countSql(m, c.where),
              listSql |-> listSql(m, cols, c.where, Len(c.values)),
              listValues |-> c.values \o <<PInt(pageSize), PInt(offset)>>]
        none == [status |-> 500, page |-> 0, pageSize |-> 0, offset |-> 0, total |-> 0, totalPages |-> 0]
    IN  IF ~db.ok
        THEN [query |-> q, error |-> "Search failed", res |-> none]
        ELSE [query |-> q, error |-> "",
              res |-> [status |-> 200, page |-> page, pageSize |-> pageSize, offset |-> offset,
                       total |-> db.total,
                       totalPages |-> Max(1, (db.total + pageSize - 1) \div pageSize)]]

\* lines 476-479 and 501-700 for the resolved columns cols: no domain column answers 500,
\* otherwise the criteria are compiled, once
SearchWith(m, body, db, cols) ==
    IF cols.domainColumn = NoString
    THEN [query |-> NoQuery, error |-> "No domain column found",
          res |-> [status |-> 500, page |-> 0, pageSize |-> 0, offset |-> 0, total |-> 0, totalPages |-> 0]]
    ELSE CHOOSE out \in { Respond(m, body, db, cols, c) : c \in {Compile(m, cols, body.criteria)} } : TRUE

\* POST /api/domains/search (lines 466-763): the column roles are resolved, once per request
SearchHandler(m, body, db) ==
    CHOOSE out \in { SearchWith(m, body, db, cols) : cols \in {Roles(m)} } : TRUE

-----------------------------------------------------------------------------
(* Inputs of the search endpoint *)

MaxCols == 3

ColumnPool ==
    <<Col("domain", "text"), Col("Sub\"Domain", "text"), Col("tld", "text"), Col("created_at", "timestamp"),
      Col("expires_at", "text"), Col("drop_date", "date"), Col("is_deleted", "boolean"), Col("deleted", "text"),
      Col("deleted_at", "timestamp"), Col("status", "text"), Col("country_by_ip", "text"),
      Col("detected_hosts", "text"), Col("spamhaus", "boolean"), Col("Spamhaus_Listed", "text")>>

\* the columns of the pool at the positions S, in catalog (ordinal) order
ColumnsAt(S) == SelectSeq(ColumnPool, LAMBDA c : \E i \in S : ColumnPool[i] = c)

\* the tables tried: with or without the column named domain, and up to MaxCols of the others
MetaSet ==
    { Meta(ColumnsAt(S)) : S \in { X \in SUBSET (1..Len(ColumnPool)) : Cardinality(X \ {1}) <= MaxCols } }

With(c, k, v) == [c EXCEPT ![k] = v]

DaysValues ==
    {Undefined, Null, Str(""), Str("abc"), Str("7"), Num(100), Num(29), Num(0), Num(-50)}

LifecycleCriteria ==
    { With(With(EmptyCriteria, "lifecycleState", Str("expiring")), "expiringWithinDays", d) : d \in DaysValues }
    \cup { With(EmptyCriteria, "lifecycleState", v) :
             v \in {Str("active"), Str("deleted"), Str(" Expiring "), Str("archived"), Str(" "), Null} }
    \cup { With(With(EmptyCriteria, "lifecycleState", Null), "expiredState", Str("deleted")) }

SingleCriteria ==
    { With(EmptyCriteria, kv[1], kv[2]) :
        kv \in { <<"domainStartsWith", Str("shop")>>, <<"domainEndsWith", Str(" er ")>>,
                 <<"tld", Str(".COM, net")>>, <<"tld", Str(" , ")>>,
                 <<"creationDateFrom", Str("2020-01-01")>>, <<"creationDateTo", Str("2021-12-31")>>,
                 <<"ageYearsFrom", Num(50)>>, <<"ageYearsTo", Str("2.5")>>, <<"ageYearsFrom", Str("old")>>,
                 <<"countryByIp", Str("US")>>, <<"registrarContains", Str("daddy")>>,
                 <<"technologiesContains", Str("php")>>, <<"responseStatusContains", Str("200")>>,
                 <<"detectedHostsMin", Num(30)>>, <<"detectedHostsMax", Str("many")>>,
                 <<"expirationFrom", Str("2024-01-01")>>, <<"expirationTo", Str("2025-01-01")>>,
                 <<"waybackMinSnapshots", Str("10")>>, <<"safeSpamhausOnly", Bool(TRUE)>>,
                 <<"safeSpamhausOnly", Str("true")>>, <<"safeViewsTotalOnly", Bool(TRUE)>> } }

ComboCriteria ==
    { With(With(EmptyCriteria, "domainStartsWith", Str("shop")), "lifecycleState", Str(l)) :
        l \in {"active", "expiring", "deleted"} }
    \cup { With(With(EmptyCriteria, "ageYearsFrom", Num(70)), "ageYearsTo", Num(20)),
           With(With(EmptyCriteria, "ageYearsFrom", Num(-30)), "ageYearsTo", Num(40)),
           With(With(EmptyCriteria, "tld", Str("io")), "countryByIp", Str("DE")) }

CriteriaSet == {EmptyCriteria} \cup LifecycleCriteria \cup SingleCriteria \cup ComboCriteria

PagingBodies ==
    { Body(pp[1], pp[2], EmptyCriteria) :
        pp \in { <<Num(0), Num(100000)>>, <<Str("3"), Str("25")>>, <<Num(25), Num(5)>>,
                 <<Null, Num(-10)>>, <<Str("x"), Str("y")>>, <<Num(20), Num(5000)>>,
                 <<Num(15), Null>>, <<Str(""), Str(" ")>> } }

Bodies == { Body(Undefined, Undefined, c) : c \in CriteriaSet } \cup PagingBodies

DbOk(total) == [ok |-> TRUE, total |-> total]
DbFails == [ok |-> FALSE, total |-> 0]

\* the requests tried: every criteria object against a database holding 101 matching rows,
\* and the paging bodies against an empty, a 101-row and a failing database
SearchInputs ==
    { <<b, DbOk(101)>> : b \in Bodies } \cup (PagingBodies \X {DbOk(0), DbFails})

NoSearch == [done |-> FALSE]

\* one search request, from the body to the response: SearchHandler(meta, body, db), with
\* the column roles, which depend on the metadata alone, resolved once for all the bodies tried
\* and kept beside the response as the columns the request used
SearchAmong(inputs) ==
    /\ ~search.done
    /\ \E cols \in {Roles(meta)} : \E in \in inputs :
          search' = [done |-> TRUE, body |-> in[1], db |-> in[2], cols |-> cols,
                     out |-> SearchWith(meta, in[1], in[2], cols)]
    /\ UNCHANGED <<meta, capabilities, metaVars, checkVars, awaitVars>>

Search == SearchAmong(SearchInputs)

-----------------------------------------------------------------------------
(* GET /api/capabilities (lines 231-322) *)

capabilitiesWaybackCandidates ==
    CandidateKeys(<<"wayback_snapshots", "wayback_total", "wayback_count", "webarchive_snapshots",
                    "archive_snapshots", "archive_count">>)
capabilitiesSpamhausCandidates ==
    CandidateKeys(<<"spamhaus", "spamhouse", "spamhaus_listed", "spamhouse_listed">>)
capabilitiesViewsTotalCandidates ==
    CandidateKeys(<<"viewstotal", "views_total", "viewstotal_listed", "views_total_listed">>)

\* lines 246-271: findFirstColumn(...) || findColumnsLike(...)[0] || null for the roles with a
\* regex, findFirstColumn(...) || null for the others
columnsPicked(m) ==
    [domainColumn |-> pick(m, domainCandidates, {"domain"}),
     tldColumn |-> pick(m, tldCandidates, NoRegex),
     createdColumn |-> pick(m, createdCandidates, {"creation", "created", "registered", "registration"}),
     expiresColumn |-> pick(m, expiresCandidates, {"expiration", "expire", "expires", "expiry"}),
     scheduledDeleteColumn |-> pick(m, scheduledDeleteCandidates, {"drop", "delete", "deletion"}),
     deletedAtColumn |-> pick(m, deletedAtCandidates, NoRegex),
     deletedFlagColumn |-> pick(m, deletedFlagCandidates, NoRegex),
     statusColumn |-> pick(m, statusCandidates, NoRegex),
     waybackColumn |-> pick(m, capabilitiesWaybackCandidates, {"wayback", "archive"}),
     spamhausColumn |-> pick(m, capabilitiesSpamhausCandidates, {"spamhaus", "spamhouse"}),
     viewsTotalColumn |-> pick(m, capabilitiesViewsTotalCandidates, {"viewstotal", "views_total"})]

\* lines 292-306
supports(p) ==
    [lifecycle |-> \/ p.statusColumn # NoString \/ p.expiresColumn # NoString
                   \/ p.scheduledDeleteColumn # NoString \/ p.deletedAtColumn # NoString
                   \/ p.deletedFlagColumn # NoString,
     ageRange |-> p.createdColumn # NoString,
     creationDateRange |-> p.createdColumn # NoString,
     keywords |-> p.domainColumn # NoString,
     tld |-> p.tldColumn # NoString \/ p.domainColumn # NoString,
     wayback |-> p.waybackColumn # NoString,
     spamhaus |-> p.spamhausColumn # NoString,
     viewsTotal |-> p.viewsTotalColumn # NoString]

\* what the database answers to the DISTINCT status query: rows, or an error
StatusAnswers == { [ok |-> TRUE, rows |-> <<"active", "", "deleted">>], [ok |-> FALSE, rows |-> <<>>] }

\* lines 273-283: no query without a status column; empty values are dropped, a failed query
\* gives no values
statusValues(p, db) ==
    IF p.statusColumn # NoString /\ db.ok THEN SelectSeq(db.rows, LAMBDA v : v # "") ELSE <<>>

NoCapabilities == [done |-> FALSE]

\* the searches tried beside a capabilities request: no criteria, the expiring state, and the
\* three filters on the reputation columns
CapabilitiesSearchInputs ==
    { <<Body(Undefined, Undefined, c), DbOk(101)>> :
        c \in { EmptyCriteria,
                With(EmptyCriteria, "lifecycleState", Str("expiring")),
                With(EmptyCriteria, "waybackMinSnapshots", Str("10")),
                With(EmptyCriteria, "safeSpamhausOnly", Bool(TRUE)),
                With(EmptyCriteria, "safeViewsTotalOnly", Bool(TRUE)) } }

\* one capabilities request on the metadata, from the resolution of the roles to the response
Capabilities ==
    /\ ~capabilities.done
    /\ \E p \in {columnsPicked(meta)} : \E db \in StatusAnswers :
          capabilities' = [done |-> TRUE, columnsPicked |-> p, supports |-> supports(p),
                           statusValues |-> statusValues(p, db)]
    /\ UNCHANGED <<meta, search, metaVars, checkVars, awaitVars>>

-----------------------------------------------------------------------------
(* The schema metadata cache (lines 43-67) *)

NumCallers == 3
MaxCalls == 2

Callers == 1..NumCallers

NoPromise == [st |-> "null"]
Pending == [st |-> "pending"]
Fulfilled(m) == [st |-> "fulfilled", value |-> m]

CatalogOutcomes ==
    { [ok |-> FALSE, columns |-> <<>>],
      [ok |-> TRUE, columns |-> <<>>],
      [ok |-> TRUE, columns |-> ColumnsAt({1, 3, 10})] }

\* getDomainsTableMeta memoizing the metadata, not the promise: a call that finds no
\* metadata yet issues the catalog query again
getDomainsTableMetaMutNoSingleFlight(promise, queries) ==
    IF promise.st # "fulfilled"
    THEN [promise |-> Pending, queries |-> queries + 1]
    ELSE [promise |-> promise, queries |-> queries]

\* the synchronous part of getDomainsTableMeta(): the promise is created, and the catalog
\* query issued, only when no promise is memoized (line 45)
getDomainsTableMeta(promise, queries) ==
    IF promise.st = "null"
    THEN [promise |-> Pending, queries |-> queries + 1]
    ELSE [promise |-> promise, queries |-> queries]

\* what the memoized promise fulfils with: the catalog rows, or the empty metadata of the
\* catch handler (lines 57-64)
settleCatalog(outcome) == IF outcome.ok THEN Meta(outcome.columns) ELSE Meta(<<>>)

\* a caller (a request handler) calls getDomainsTableMeta() and awaits the result
MetaCall(c) ==
    /\ caller[c].pc = "idle"
    /\ caller[c].calls < MaxCalls
    /\ LET r == getDomainsTableMeta(domainsTableMetaPromise, catalogQueries)
       IN  /\ domainsTableMetaPromise' = r.promise
           /\ catalogQueries' = r.queries
    /\ caller' = [caller EXCEPT ![c] = [@ EXCEPT !.pc = "awaiting", !.calls = @ + 1]]
    /\ UNCHANGED <<catalogOutcome, searchVars, checkVars, awaitVars>>

\* the database answers the catalog query (or fails): the promise settles
CatalogAnswer ==
    /\ domainsTableMetaPromise.st = "pending"
    /\ domainsTableMetaPromise' = Fulfilled(settleCatalog(catalogOutcome))
    /\ UNCHANGED <<catalogQueries, catalogOutcome, caller, searchVars, checkVars, awaitVars>>

\* an awaiting caller resumes with the promise's value
MetaResume(c) ==
    /\ caller[c].pc = "awaiting"
    /\ domainsTableMetaPromise.st = "fulfilled"
    /\ caller' = [caller EXCEPT ![c] = [@ EXCEPT !.pc = "idle", !.has = TRUE,
                                                 !.got = domainsTableMetaPromise.value]]
    /\ UNCHANGED <<domainsTableMetaPromise, catalogQueries, catalogOutcome, searchVars, checkVars, awaitVars>>

IdleCaller == [pc |-> "idle", calls |-> 0, has |-> FALSE, got |-> Meta(<<>>)]

-----------------------------------------------------------------------------
(* Domain normalization (lines 104-123) *)

\* x.split(sep)[0]
RECURSIVE BeforeFirst(_, _)
BeforeFirst(x, sep) ==
    IF x = "" \/ Head(x) = sep THEN "" ELSE Head(x) \o BeforeFirst(Tail(x), sep)

\* x.replace(/^https?:\/\//i, '')
StripProtocol(x) ==
    IF StartsWith(ToLower(x), "http://") THEN SubSeq(x, 8, Len(x))
    ELSE IF StartsWith(ToLower(x), "https://") THEN SubSeq(x, 9, Len(x))
    ELSE x

RECURSIVE TrimLeftDots(_)
TrimLeftDots(x) == IF x # "" /\ Head(x) = "." THEN TrimLeftDots(Tail(x)) ELSE x

RECURSIVE TrimRightDots(_)
TrimRightDots(x) ==
    IF x # "" /\ CharAt(x, Len(x)) = "." THEN TrimRightDots(SubSeq(x, 1, Len(x) - 1)) ELSE x

DomainChars == "abcdefghijklmnopqrstuvwxyz0123456789.-"
DomainCharSet == { CharAt(DomainChars, i) : i \in 1..Len(DomainChars) }

\* /^[a-z0-9.-]+$/.test(x)
IsDomainText(x) == x # "" /\ \A i \in 1..Len(x) : CharAt(x, i) \in DomainCharSet

normalizeDomainMutNoDotCheck(input) ==
    LET s == normalizeString(input)
        x1 == StripProtocol(Trim(s))
        x2 == BeforeFirst(BeforeFirst(BeforeFirst(BeforeFirst(x1, "/"), "?"), "#"), ":")
        x3 == ToLower(TrimRightDots(TrimLeftDots(x2)))
    IN  IF s = NoString THEN NoString
        ELSE IF ~IsDomainText(x3) THEN NoString
        ELSE x3

normalizeDomain(input) ==
    LET s == normalizeString(input)
        x1 == StripProtocol(Trim(s))
        x2 == BeforeFirst(BeforeFirst(BeforeFirst(BeforeFirst(x1, "/"), "?"), "#"), ":")
        x3 == ToLower(TrimRightDots(TrimLeftDots(x2)))
    IN  IF s = NoString THEN NoString
        ELSE IF ~IsDomainText(x3) THEN NoString
        ELSE IF ~Contains(x3, ".") THEN NoString
        ELSE x3

-----------------------------------------------------------------------------
(* The Spamhaus token cache (lines 328-367) *)

CHECK_TTL_MS == 900000
TOKEN_MARGIN_MS == 60000
DEFAULT_TOKEN_LIFETIME_MS == 82800000

Cfgs == {"api_key", "login", "missing"}

NoAuth == [set |-> FALSE, token |-> "", expiresAtMs |-> 0]

StaticToken == "static-key"

tokenIsFreshMutNoMargin(auth, t) ==
    auth.set /\ auth.token # "" /\ auth.expiresAtMs # 0 /\ t < auth.expiresAtMs

\* line 342: a token is cached and now is before its expiry less the 60 s margin
tokenIsFresh(auth, t) ==
    auth.set /\ auth.token # "" /\ auth.expiresAtMs # 0 /\ t < auth.expiresAtMs - TOKEN_MARGIN_MS

\* getSpamhausIntelToken() up to its first await (lines 329-347): the source of the token,
\* "login" meaning that the login call is issued
getSpamhausIntelToken(c, auth, t) ==
    IF c = "api_key" THEN [source |-> "api_key", token |-> StaticToken]
    ELSE IF c = "missing" THEN [source |-> "missing", token |-> ""]
    ELSE IF tokenIsFresh(auth, t) THEN [source |-> "login_cached", token |-> auth.token]
    ELSE [source |-> "login", token |-> ""]

\* what the login call ends with, after fetchJsonWithRetry: threw (status 0) or an HTTP
\* status, with or without a token, declaring no expiry (0) or one 15 minutes ahead
LoginOutcomes ==
    { [status |-> 0, token |-> FALSE, expires |-> 0],
      [status |-> 500, token |-> FALSE, expires |-> 0],
      [status |-> 200, token |-> FALSE, expires |-> 0],
      [status |-> 200, token |-> TRUE, expires |-> 0],
      [status |-> 200, token |-> TRUE, expires |-> 15 * 60] }

\* the login answer at time t: json.expires is a unix time in seconds
loginAnswer(o, t) == [o EXCEPT !.expires = IF @ = 0 THEN 0 ELSE t \div 1000 + @]

\* res.ok and a token in the body (lines 358-361); otherwise getSpamhausIntelToken throws
loginSucceeded(o) == o.status = 200 /\ o.token

\* lines 362-365
authAfterLogin(o, token, t) ==
    [set |-> TRUE, token |-> token,
     expiresAtMs |-> IF o.expires # 0 THEN o.expires * 1000 ELSE t + DEFAULT_TOKEN_LIFETIME_MS]

-----------------------------------------------------------------------------
(* The two remote checks (lines 369-442) *)

NoSpamhaus == [supported |-> FALSE, listed |-> "none", error |-> ""]

MissingCredentials ==
    [supported |-> FALSE, listed |-> "none", error |-> "Missing Spamhaus Intel credentials"]

\* what the lookup ends with, after fetchJsonWithRetry: threw (status 0) or an HTTP status
LookupOutcomes == {0, 200, 404, 401, 403, 500}

\* lines 392-402
spamhausResult(status) ==
    IF status = 404 THEN [supported |-> TRUE, listed |-> "false", error |-> ""]
    ELSE IF status = 200 THEN [supported |-> TRUE, listed |-> "true", error |-> ""]
    ELSE IF status \in {401, 403}
         THEN [supported |-> TRUE, listed |-> "none", error |-> "Auth failed (HTTP " \o ToString(status) \o ")"]
    ELSE IF status = 0 THEN [supported |-> TRUE, listed |-> "none", error |-> "fetch_timeout"]
    ELSE [supported |-> TRUE, listed |-> "none", error |-> "HTTP " \o ToString(status)]

authAfterLookupMutKeepToken(auth, status) == auth

\* lines 394-396: a 401/403 answer clears the cached login token
authAfterLookup(auth, status) == IF status \in {401, 403} THEN NoAuth ELSE auth

NoWayback == [supported |-> FALSE, hasSnapshots |-> FALSE, snapshots |-> Null, error |-> ""]

\* what the two Wayback calls end with: availability "available" / "none" / "failed"
\* (threw or not ok), and the CDX answer as its number of rows, -1 when it failed
WaybackOutcomes ==
    { [avail |-> "available", rows |-> 4], [avail |-> "failed", rows |-> -1],
      [avail |-> "available", rows |-> 10000], [avail |-> "available", rows |-> 10001] }

\* lines 424-438
waybackResult(o) ==
    [supported |-> TRUE,
     hasSnapshots |-> o.avail = "available",
     snapshots |-> IF o.rows > 0
                   THEN (IF o.rows - 1 >= 9999 THEN Str("10000+") ELSE Num(10 * (o.rows - 1)))
                   ELSE Null,
     error |-> ""]

-----------------------------------------------------------------------------
(* POST /api/domains/check (lines 444-464) *)

MaxArrivals == 3
MaxInFlight == 2
MaxTicks == 2

\* request slots: a check request that has to await remote calls runs in the lowest free slot
Reqs == 1..MaxInFlight

\* clock advances: 1 min, 14 min
Deltas == {60000, 840000}

CheckInputs == <<"example.com", "HTTPS://Example.COM:8080/a?b#c", "localhost", "ex_ample.com", "http://..">>

\* normalizeDomain(req.body?.domain) of every input tried, computed once
RECURSIVE NormalizeAll(_)
NormalizeAll(inputs) ==
    IF Len(inputs) = 0 THEN <<>>
    ELSE (Head(inputs) :> normalizeDomain(Str(Head(inputs)))) @@ NormalizeAll(Tail(inputs))

DomainOf == NormalizeAll(CheckInputs)

Domains == { DomainOf[i] : i \in DOMAIN DomainOf } \ {NoString}

NoValue == [spamhaus |-> NoSpamhaus, wayback |-> NoWayback]
NoEntry == [has |-> FALSE, ts |-> 0, value |-> NoValue]

IdleReq == [pc |-> "idle", domain |-> "", sp |-> "none", token |-> "", spamhaus |-> NoSpamhaus,
            wb |-> "none", wayback |-> NoWayback]

\* no lookup was answered in the step
NoStatus == 0 - 1

\* what a step did: kind of step, slot, domain, status of the response or of the remote answer,
\* the response's cached flag and value, the remote calls the step issued, whether the cache was
\* written, the expiry a login answer declared, the status the lookup answered (0: it threw),
\* the number of rows the CDX call answered
Event(kind, r, domain, status, cached, value, issued, stored) ==
    [kind |-> kind, r |-> r, domain |-> domain, status |-> status, cached |-> cached,
     value |-> value, issued |-> issued, stored |-> stored, expires |-> 0, lookup |-> NoStatus,
     cdxRows |-> NoStatus]

NoEvent == Event("none", 0, "", 0, FALSE, NoValue, {}, FALSE)

isFreshMutInclusive(entry, t) == entry.has /\ t - entry.ts <= CHECK_TTL_MS

\* line 450: cached && Date.now() - cached.ts < CHECK_TTL_MS
isFresh(entry, t) == entry.has /\ t - entry.ts < CHECK_TTL_MS

hasErrorMutWaybackOnly(spamhaus, wayback) == wayback.error # ""

\* line 457: spamhaus?.error || wayback?.error
hasError(spamhaus, wayback) == spamhaus.error # "" \/ wayback.error # ""

\* lines 455-459, reached when both branches have their result: the merged value is stored
\* unless it carries an error, and the response is sent
Finish(r, spamhaus, wayback, lookup, cdxRows) ==
    LET value == [spamhaus |-> spamhaus, wayback |-> wayback]
        d == req[r].domain
        store == ~hasError(spamhaus, wayback)
    IN  /\ checkCache' = IF store THEN [checkCache EXCEPT ![d] = [has |-> TRUE, ts |-> now, value |-> value]]
                         ELSE checkCache
        /\ req' = [req EXCEPT ![r] = IdleReq]
        /\ lastEvent' = [Event("response", r, d, 200, FALSE, value, {}, store)
                           EXCEPT !.lookup = lookup, !.cdxRows = cdxRows]

\* a check request arrives: normalization, cache lookup and, on a miss, the dispatch of both
\* branches up to their first remote call (lines 446-454, 372-390, 410-420)
CheckArrive(input) ==
    /\ arrivals < MaxArrivals
    /\ arrivals' = arrivals + 1
    /\ LET domain == DomainOf[input]
           tk == getSpamhausIntelToken(cfg, spamhausIntelAuth, now)
           free == { s \in Reqs : req[s].pc = "idle" }
           r == IF free = {} THEN 0 ELSE CHOOSE s \in free : \A s2 \in free : s <= s2
       IN  IF domain = NoString
           THEN /\ lastEvent' = Event("response", 0, "", 400, FALSE, NoValue, {}, FALSE)
                /\ UNCHANGED <<req, logins, reauthDue>>
           ELSE IF isFresh(checkCache[domain], now)
           THEN /\ lastEvent' = Event("response", 0, domain, 200, TRUE, checkCache[domain].value, {}, FALSE)
                /\ UNCHANGED <<req, logins, reauthDue>>
           ELSE IF r = 0 THEN FALSE
           ELSE IF tk.source = "missing"
           THEN /\ reauthDue' = FALSE
                /\ req' = [req EXCEPT ![r] = [IdleReq EXCEPT !.pc = "busy", !.domain = domain, !.sp = "done",
                                                             !.spamhaus = MissingCredentials,
                                                             !.wb = "fetching"]]
                /\ lastEvent' = Event("dispatch", r, domain, 0, FALSE, NoValue, {"wayback"}, FALSE)
                /\ UNCHANGED logins
           ELSE IF tk.source = "login"
           THEN /\ reauthDue' = FALSE
                /\ req' = [req EXCEPT ![r] = [IdleReq EXCEPT !.pc = "busy", !.domain = domain, !.sp = "login",
                                                             !.token = "login-" \o ToString(logins + 1),
                                                             !.wb = "fetching"]]
                /\ logins' = logins + 1
                /\ lastEvent' = Event("dispatch", r, domain, 0, FALSE, NoValue, {"login", "wayback"}, FALSE)
           ELSE /\ reauthDue' = FALSE
                /\ req' = [req EXCEPT ![r] = [IdleReq EXCEPT !.pc = "busy", !.domain = domain, !.sp = "lookup",
                                                             !.token = tk.token, !.wb = "fetching"]]
                /\ lastEvent' = Event("dispatch", r, domain, 0, FALSE, NoValue, {"lookup", "wayback"}, FALSE)
                /\ UNCHANGED logins
    /\ UNCHANGED <<now, ticks, cfg, checkCache, spamhausIntelAuth, searchVars, metaVars, awaitVars>>

\* the login call of request r ends (lines 348-366): on success the token is cached and the
\* lookup is issued with it; otherwise getSpamhausIntelToken throws, checkSpamhaus rejects
\* and the handler's catch answers 500 (lines 460-463)
LoginResponse(r, o) ==
    /\ req[r].sp = "login"
    /\ IF loginSucceeded(o)
       THEN /\ spamhausIntelAuth' = authAfterLogin(loginAnswer(o, now), req[r].token, now)
            /\ req' = [req EXCEPT ![r] = [@ EXCEPT !.sp = "lookup"]]
            /\ lastEvent' = [Event("login", r, req[r].domain, o.status, FALSE, NoValue, {"lookup"}, FALSE)
                               EXCEPT !.expires = loginAnswer(o, now).expires]
       ELSE /\ req' = [req EXCEPT ![r] = IdleReq]
            /\ lastEvent' = Event("response", r, req[r].domain, 500, FALSE, NoValue, {}, FALSE)
            /\ UNCHANGED spamhausIntelAuth
    /\ UNCHANGED <<now, ticks, cfg, checkCache, logins, arrivals, reauthDue, searchVars, metaVars, awaitVars>>

\* the Spamhaus lookup of request r ends (lines 392-402)
LookupResponse(r, status) ==
    /\ req[r].sp = "lookup"
    /\ spamhausIntelAuth' = authAfterLookup(spamhausIntelAuth, status)
    /\ reauthDue' = (reauthDue \/ status \in {401, 403})
    /\ IF req[r].wb = "done"
       THEN Finish(r, spamhausResult(status), req[r].wayback, status, NoStatus)
       ELSE /\ req' = [req EXCEPT ![r] = [@ EXCEPT !.sp = "done", !.spamhaus = spamhausResult(status)]]
            /\ lastEvent' = [Event("lookup", r, req[r].domain, status, FALSE, NoValue, {}, FALSE)
                               EXCEPT !.lookup = status]
            /\ UNCHANGED checkCache
    /\ UNCHANGED <<now, ticks, cfg, logins, arrivals, searchVars, metaVars, awaitVars>>

\* both Wayback calls of request r have ended (lines 422-438)
WaybackResponse(r, o) ==
    /\ req[r].wb = "fetching"
    /\ IF req[r].sp = "done"
       THEN Finish(r, req[r].spamhaus, waybackResult(o), NoStatus, o.rows)
       ELSE /\ req' = [req EXCEPT ![r] = [@ EXCEPT !.wb = "done", !.wayback = waybackResult(o)]]
            /\ lastEvent' = [Event("wayback", r, req[r].domain, 0, FALSE,
                                     [NoValue EXCEPT !.wayback = waybackResult(o)], {}, FALSE)
                               EXCEPT !.cdxRows = o.rows]
            /\ UNCHANGED checkCache
    /\ UNCHANGED <<now, ticks, cfg, spamhausIntelAuth, logins, arrivals, reauthDue, searchVars, metaVars, awaitVars>>

\* time passes
Tick(d) ==
    /\ ticks < MaxTicks
    /\ ticks' = ticks + 1
    /\ now' = now + d
    /\ lastEvent' = Event("tick", 0, "", 0, FALSE, NoValue, {}, FALSE)
    /\ UNCHANGED <<cfg, checkCache, spamhausIntelAuth, req, logins, arrivals, reauthDue, searchVars, metaVars, awaitVars>>

-----------------------------------------------------------------------------
(* Remote calls: withTimeout and fetchJsonWithRetry (lines 125-167) *)

\* { timeoutMs, retries } of the callers: the login and the lookup (lines 355, 389), the
\* Wayback availability call (line 413), the CDX call (line 419) and the defaults (line 137)
CallOptions ==
    { [timeoutMs |-> 12000, retries |-> 1], [timeoutMs |-> 8000, retries |-> 1],
      [timeoutMs |-> 25000, retries |-> 0], [timeoutMs |-> 12000, retries |-> 2] }

\* res.status of the answers tried
HttpStatuses == {200, 404, 401, 429, 500}

IdleFetch ==
    [pc |-> "idle", timeoutMs |-> 0, retries |-> 0, attempt |-> 0, status |-> 0, timer |-> FALSE,
     inFlight |-> {}, timedOut |-> {}, outcomes |-> <<>>, slept |-> <<>>, lastErr |-> ""]

\* what an attempt met: an answer with its status, a rejected fetch, or the timeout
Answered(status) == [kind |-> "status", status |-> status]
Rejected == [kind |-> "error", status |-> 0]
TimedOut == [kind |-> "timeout", status |-> 0]

\* line 142
isRetryStatus(status) == status >= 500 \/ status = 429

\* sleep(250 * Math.pow(2, attempt)) (lines 146, 161)
backoffMs(attempt) == 250 * 2^attempt

\* the catch block (lines 158-164): the error is kept; a further attempt follows the backoff,
\* and after the last attempt the loop ends and lastErr is thrown (line 166)
catchError(f, outcome, err) ==
    IF f.attempt < f.retries
    THEN [f EXCEPT !.pc = "sleep", !.outcomes = Append(@, outcome), !.lastErr = err,
                   !.slept = Append(@, backoffMs(f.attempt))]
    ELSE [f EXCEPT !.pc = "threw", !.outcomes = Append(@, outcome), !.lastErr = err]

\* an attempt starts (line 141): fetch(url, options) sends the request and withTimeout arms
\* its timer (line 128)
startAttempt(f, attempt) ==
    [f EXCEPT !.pc = "fetch", !.attempt = attempt, !.status = 0, !.timer = TRUE,
              !.inFlight = @ \cup {attempt}]

\* fetchJsonWithRetry(url, options, { timeoutMs, retries }) is called
FetchCall(o) ==
    /\ fetch.pc = "idle"
    /\ fetch' = startAttempt([IdleFetch EXCEPT !.timeoutMs = o.timeoutMs, !.retries = o.retries], 0)
    /\ UNCHANGED <<dbq, searchVars, metaVars, checkVars>>

\* the response headers of the awaited request arrive: the race is won by fetch, finally
\* clears the timer (line 130), and the status decides between lines 143 and 150
HeadersArrive(status) ==
    /\ fetch.pc = "fetch"
    /\ fetch.attempt \in fetch.inFlight
    /\ fetch' = [fetch EXCEPT !.pc = IF isRetryStatus(status) THEN "errbody" ELSE "body",
                              !.status = status, !.timer = FALSE,
                              !.inFlight = @ \ {fetch.attempt},
                              !.outcomes = Append(@, Answered(status))]
    /\ UNCHANGED <<dbq, searchVars, metaVars, checkVars>>

\* the awaited request fails (transport error): fetch rejects and the catch block runs
FetchRejects ==
    /\ fetch.pc = "fetch"
    /\ fetch.attempt \in fetch.inFlight
    /\ fetch' = catchError([fetch EXCEPT !.timer = FALSE, !.inFlight = @ \ {fetch.attempt}],
                           Rejected, "fetch failed")
    /\ UNCHANGED <<dbq, searchVars, metaVars, checkVars>>

\* the timer of withTimeout fires (line 128): the race rejects with 'fetch_timeout' and the
\* catch block runs; nothing is done to the request that fetch sent
TimeoutFires ==
    /\ fetch.pc = "fetch"
    /\ fetch.timer
    /\ fetch' = catchError([fetch EXCEPT !.timer = FALSE, !.timedOut = @ \cup {fetch.attempt}],
                           TimedOut, "fetch_timeout")
    /\ UNCHANGED <<dbq, searchVars, metaVars, checkVars>>

\* res.text() of a 5xx / 429 answer settles (line 143; a rejection is caught into ''): the
\* error is kept, and a further attempt follows the backoff; after the last attempt the
\* answer is returned like any other (line 150)
ErrorBodyRead ==
    /\ fetch.pc = "errbody"
    /\ fetch' = IF fetch.attempt < fetch.retries
                THEN [fetch EXCEPT !.pc = "sleep", !.lastErr = "HTTP " \o ToString(fetch.status),
                                   !.slept = Append(@, backoffMs(fetch.attempt))]
                ELSE [fetch EXCEPT !.pc = "body", !.lastErr = "HTTP " \o ToString(fetch.status)]
    /\ UNCHANGED <<dbq, searchVars, metaVars, checkVars>>

\* res.text() settles (line 150; a rejection is caught into '') and { res, text, json } is
\* returned
BodyRead ==
    /\ fetch.pc = "body"
    /\ fetch' = [fetch EXCEPT !.pc = "returned"]
    /\ UNCHANGED <<dbq, searchVars, metaVars, checkVars>>

\* the backoff ends and the next attempt starts (lines 146-147, 161-162, 139)
SleepEnds ==
    /\ fetch.pc = "sleep"
    /\ fetch' = startAttempt(fetch, fetch.attempt + 1)
    /\ UNCHANGED <<dbq, searchVars, metaVars, checkVars>>

\* a request that is no longer awaited (its attempt timed out) settles in the network
AbandonedSettles(a) ==
    /\ a \in fetch.inFlight
    /\ ~(fetch.pc = "fetch" /\ a = fetch.attempt)
    /\ fetch' = [fetch EXCEPT !.inFlight = @ \ {a}]
    /\ UNCHANGED <<dbq, searchVars, metaVars, checkVars>>

-----------------------------------------------------------------------------
(* The two queries of a search request (lines 705, 750, 759-762) *)

IdleDbq == [pc |-> "idle", status |-> 0]

\* the search handler sends the COUNT query and awaits it (line 705)
SearchQuery ==
    /\ dbq.pc = "idle"
    /\ dbq' = [pc |-> "count", status |-> 0]
    /\ UNCHANGED <<fetch, searchVars, metaVars, checkVars>>

\* the database answers the awaited query: after the COUNT the SELECT is sent and awaited
\* (line 750), after the SELECT the response is sent (line 752); a rejection is answered 500
\* by the catch block (lines 759-762)
DbAnswer(ok) ==
    /\ dbq.pc \in {"count", "list"}
    /\ dbq' = IF ~ok THEN [pc |-> "responded", status |-> 500]
              ELSE IF dbq.pc = "count" THEN [pc |-> "list", status |-> 0]
              ELSE [pc |-> "responded", status |-> 200]
    /\ UNCHANGED <<fetch, searchVars, metaVars, checkVars>>

InitAwaitIdle == fetch = IdleFetch /\ dbq = IdleDbq

-----------------------------------------------------------------------------
(* Specifications *)

InitSearchIdle == meta = Meta(<<>>) /\ search = NoSearch /\ capabilities = NoCapabilities

InitMetaIdle ==
    /\ domainsTableMetaPromise = NoPromise
    /\ catalogQueries = 0
    /\ catalogOutcome = [ok |-> TRUE, columns |-> <<>>]
    /\ caller = [c \in Callers |-> IdleCaller]

\* Date.now() at start, counted in ms from an epoch of the model (TLC integers are 32 bit)
StartTime == 1000 * 1000

InitCheckIdle ==
    /\ now = StartTime
    /\ ticks = 0
    /\ cfg = "login"
    /\ checkCache = [d \in Domains |-> NoEntry]
    /\ spamhausIntelAuth = NoAuth
    /\ req = [r \in Reqs |-> IdleReq]
    /\ logins = 0
    /\ arrivals = 0
    /\ lastEvent = NoEvent
    /\ reauthDue = FALSE

\* the search endpoint on every table metadata of MetaSet
InitSearch ==
    /\ meta \in MetaSet /\ search = NoSearch /\ capabilities = NoCapabilities
    /\ InitMetaIdle /\ InitCheckIdle /\ InitAwaitIdle
NextSearch == Search
SpecSearch == InitSearch /\ [][NextSearch]_vars

\* The capabilities endpoint and the search endpoint on one table, in either order.
NextCapabilities == Capabilities \/ SearchAmong(CapabilitiesSearchInputs)
SpecCapabilities == InitSearch /\ [][NextCapabilities]_vars

\* the metadata cache with concurrent callers
InitMeta ==
    /\ InitSearchIdle
    /\ domainsTableMetaPromise = NoPromise
    /\ catalogQueries = 0
    /\ catalogOutcome \in CatalogOutcomes
    /\ caller = [c \in Callers |-> IdleCaller]
    /\ InitCheckIdle
    /\ InitAwaitIdle
NextMeta ==
    \/ \E c \in Callers : MetaCall(c)
    \/ CatalogAnswer
    \/ \E c \in Callers : MetaResume(c)
SpecMeta == InitMeta /\ [][NextMeta]_vars

\* the check endpoint with concurrent requests
InitCheck ==
    /\ InitSearchIdle
    /\ InitMetaIdle
    /\ now = StartTime
    /\ ticks = 0
    /\ cfg \in Cfgs
    /\ checkCache = [d \in Domains |-> NoEntry]
    /\ spamhausIntelAuth = NoAuth
    /\ req = [r \in Reqs |-> IdleReq]
    /\ logins = 0
    /\ arrivals = 0
    /\ lastEvent = NoEvent
    /\ reauthDue = FALSE
    /\ InitAwaitIdle
NextCheck ==
    \/ \E input \in DOMAIN DomainOf : CheckArrive(input)
    \/ \E r \in Reqs, o \in LoginOutcomes : LoginResponse(r, o)
    \/ \E r \in Reqs, status \in LookupOutcomes : LookupResponse(r, status)
    \/ \E r \in Reqs, o \in WaybackOutcomes : WaybackResponse(r, o)
    \/ \E d \in Deltas : Tick(d)
SpecCheck == InitCheck /\ [][NextCheck]_vars

\* one remote call and one search request awaiting the database. The timer of withTimeout and
\* the timer of sleep fire (the event loop runs due timers); nothing makes a remote endpoint
\* or the database answer.
InitAwait == InitSearchIdle /\ InitMetaIdle /\ InitCheckIdle /\ InitAwaitIdle
NextAwait ==
    \/ \E o \in CallOptions : FetchCall(o)
    \/ \E status \in HttpStatuses : HeadersArrive(status)
    \/ FetchRejects
    \/ TimeoutFires
    \/ ErrorBodyRead
    \/ BodyRead
    \/ SleepEnds
    \/ \E a \in 0..2 : AbandonedSettles(a)
    \/ SearchQuery
    \/ \E ok \in BOOLEAN : DbAnswer(ok)
SpecAwait == InitAwait /\ [][NextAwait]_vars /\ WF_vars(TimeoutFires) /\ WF_vars(SleepEnds)

-----------------------------------------------------------------------------
(* Properties of the search endpoint *)

\* the request has been handled and its statements were built
Compiled == search.done /\ search.out.query # NoQuery

\* a WHERE fragment on a row, the row given as the set of atomic conditions true of it
FragHolds(f, row) == (\E i \in 1..Len(f.atoms) : f.atoms[i] \in row) # f.neg

\* the fragments are joined with AND (line 702)
Matches(where, row) == \A i \in 1..Len(where) : FragHolds(where[i], row)

AtomsIn(where) == UNION { { where[i].atoms[j] : j \in 1..Len(where[i].atoms) } : i \in 1..Len(where) }

LifecycleAtoms ==
    {"flagTrue", "deletedAtSet", "statusDeleted", "schedInWindow", "expInWindow", "statusExpiring",
     "expiresGeNow", "statusActive"}

\* the fragments of the lifecycle filter in a WHERE list
LifecycleFrags(where) ==
    { i \in 1..Len(where) : \E j \in 1..Len(where[i].atoms) : where[i].atoms[j] \in LifecycleAtoms }

\* the value bound to the placeholder of a fragment
BoundValue(f, values) ==
    LET j == CHOOSE k \in 1..Len(f.toks) : f.toks[k].k = "ph" IN values[f.toks[j].n]

PlaceholderOf(f) ==
    LET j == CHOOSE k \in 1..Len(f.toks) : f.toks[k].k = "ph" IN f.toks[j].s

RECURSIVE PairedQuotes(_)
PairedQuotes(s) ==
    IF s = "" THEN TRUE
    ELSE IF Head(s) = Q THEN Len(s) >= 2 /\ CharAt(s, 2) = Q /\ PairedQuotes(SubSeq(s, 3, Len(s)))
    ELSE PairedQuotes(Tail(s))

\* text wrapped in double quotes with every inner double quote doubled
IsQuotedIdent(s) ==
    /\ Len(s) >= 2
    /\ CharAt(s, 1) = Q
    /\ CharAt(s, Len(s)) = Q
    /\ PairedQuotes(SubSeq(s, 2, Len(s) - 1))

AllIdentsQuoted(stmt) == \A i \in 1..Len(stmt) : stmt[i].k = "id" => IsQuotedIdent(stmt[i].s)

TextKeys ==
    {"domainStartsWith", "domainEndsWith", "tld", "creationDateFrom", "creationDateTo", "countryByIp",
     "registrarContains", "technologiesContains", "responseStatusContains", "expirationFrom", "expirationTo"}

\* the criteria with every supplied text value replaced by another value
Revalued(c) ==
    [k \in CriteriaKeys |->
        IF /\ k \in TextKeys
           /\ normalizeString(c[k]) # NoString
           /\ (k = "tld" => Len(splitList(c[k])) > 0)
        THEN Str("zz") ELSE c[k]]

\* the statements' text does not depend on the values of the text criteria
SqlTextIgnoresValues ==
    LET q == search.out.query
        q2 == SearchHandler(meta, [search.body EXCEPT !.criteria = Revalued(search.body.criteria)], search.db).query
    IN  /\ Render(q2.countSql) = Render(q.countSql)
        /\ Render(q2.listSql) = Render(q.listSql)

\* C1 (as claimed): in the COUNT and the SELECT statement no criteria value appears in the SQL
\* text (criteria that differ only in their values give the same text), and every column or
\* table name placed in the text is wrapped in double quotes with inner double quotes doubled.
C1_QuotedAndParameterized ==
    Compiled =>
        /\ SqlTextIgnoresValues
        /\ AllIdentsQuoted(search.out.query.countSql)
        /\ AllIdentsQuoted(search.out.query.listSql)

\* a fixed-name filter was compiled: its column name stands unquoted in the statement
C1_Witness ==
    /\ Compiled
    /\ \E i \in 1..Len(search.out.query.countSql) :
          search.out.query.countSql[i].k = "id" /\ search.out.query.countSql[i].s = "country_by_ip"

\* deletion can be derived from the status column only
StatusOnlyDeletion(cols) ==
    cols.statusColumn # NoString /\ cols.deletedFlagColumn = NoString /\ cols.deletedAtColumn = NoString

\* C2 (as claimed): for 'active' or 'expiring' with deletion derived from the status column only,
\* WHERE holds NOT deletedFragment and the state's predicate, does not hold the positive
\* deletedFragment as a conjunct, and can be satisfied by a row that is not deleted.
C2_NoPositiveDeletedConjunct ==
    (Compiled /\ lifecycleOf(search.body.criteria) \in {"active", "expiring"} /\ StatusOnlyDeletion(Roles(meta))) =>
        LET w == search.out.query.where
        IN  /\ \E i \in 1..Len(w) : w[i].neg /\ w[i].atoms = <<"statusDeleted">>
            /\ \A i \in 1..Len(w) : ~(~w[i].neg /\ w[i].atoms = <<"statusDeleted">>)
            /\ \E row \in SUBSET AtomsIn(w) : "statusDeleted" \notin row /\ Matches(w, row)

\* 'expiring' within 10 days on a table with a status and an expiration column
C2_Witness ==
    /\ Compiled
    /\ lifecycleOf(search.body.criteria) = "expiring"
    /\ search.body.criteria["expiringWithinDays"] = Num(100)
    /\ StatusOnlyDeletion(Roles(meta))
    /\ Roles(meta).expiresColumn # NoString

\* 'deleted' is asked of a table with no deleted-flag and no deleted-at column
DeletedWithoutFlagOrAt ==
    /\ Compiled
    /\ lifecycleOf(search.body.criteria) = "deleted"
    /\ Roles(meta).deletedFlagColumn = NoString
    /\ Roles(meta).deletedAtColumn = NoString

\* WHERE holds the status-pattern fragment on column col, bound to the three deleted patterns
HoldsStatusFallback(q, col) ==
    \E i \in 1..Len(q.where) :
        /\ ~q.where[i].neg
        /\ Render(q.where[i].toks) = quoteIdent(col) \o "::text ILIKE ANY(" \o PlaceholderOf(q.where[i]) \o "::text[])"
        /\ BoundValue(q.where[i], q.values) = PArr(<<"%deleted%", "%dropped%", "%removed%">>)

C4_ActiveIsDisjunction ==
    (/\ Compiled
     /\ lifecycleOf(search.body.criteria) = "active"
     /\ Roles(meta).expiresColumn # NoString
     /\ Roles(meta).statusColumn # NoString
     /\ ~StatusOnlyDeletion(Roles(meta))) =>
        LET w == search.out.query.where
            others == AtomsIn(w) \ LifecycleAtoms
        IN  /\ Matches(w, others \cup {"expiresGeNow"})
            /\ Matches(w, others \cup {"statusActive"})
            /\ Matches(w, others \cup {"expiresGeNow", "statusActive"})

\* 'active' on a table with an expiration, a status and a deleted-flag column
C4_Witness ==
    /\ Compiled
    /\ lifecycleOf(search.body.criteria) = "active"
    /\ Roles(meta).expiresColumn # NoString
    /\ Roles(meta).statusColumn # NoString
    /\ Roles(meta).deletedFlagColumn # NoString
    /\ Matches(search.out.query.where, (AtomsIn(search.out.query.where) \ LifecycleAtoms) \cup {"expiresGeNow", "statusActive"})

\* expiringWithinDays is missing, null, blank or not a number
DaysNotSupplied(v) ==
    \/ v.t \in {"undefined", "null"}
    \/ v.t = "string" /\ (Trim(v.s) = "" \/ ~IsFinite(StringToNumber(v.s)))
    \/ v.t = "number" /\ v.nan

ClaimedDays(v) == IF DaysNotSupplied(v) THEN 30 ELSE Max(1, Trunc(ToNumber(v).n))

\* the text of the window predicate on column col with placeholder ph
WindowText(col, ph) ==
    "NULLIF(" \o quoteIdent(col) \o "::text, '')::timestamp >= NOW() AND NULLIF(" \o quoteIdent(col)
    \o "::text, '')::timestamp < (NOW() + (" \o ph \o "::int || ' days')::interval)"

\* C5 (as claimed): for 'expiring' the window predicate is built on the scheduled-delete column
\* when one is resolved and on the expiration column otherwise, it requires the date to lie in
\* [now, now + N days), and the bound N is 30 when expiringWithinDays is missing, null, blank or
\* not a number and max(1, trunc(expiringWithinDays)) otherwise.
C5_ExpiringWindow ==
    (/\ Compiled
     /\ lifecycleOf(search.body.criteria) = "expiring"
     /\ (Roles(meta).scheduledDeleteColumn # NoString \/ Roles(meta).expiresColumn # NoString)) =>
        LET q == search.out.query
            col == IF Roles(meta).scheduledDeleteColumn # NoString
                   THEN Roles(meta).scheduledDeleteColumn ELSE Roles(meta).expiresColumn
            windows == { i \in 1..Len(q.where) : q.where[i].atoms \in {<<"schedInWindow">>, <<"expInWindow">>} }
        IN  /\ Cardinality(windows) = 1
            /\ \A i \in windows :
                  /\ Render(q.where[i].toks) = WindowText(col, PlaceholderOf(q.where[i]))
                  /\ BoundValue(q.where[i], q.values) = PInt(ClaimedDays(search.body.criteria["expiringWithinDays"]))
                  /\ BoundValue(q.where[i], q.values).n >= 1

\* 'expiring' with expiringWithinDays null was compiled to a window predicate
C5_Witness ==
    /\ Compiled
    /\ lifecycleOf(search.body.criteria) = "expiring"
    /\ search.body.criteria["expiringWithinDays"] = Null
    /\ \E i \in 1..Len(search.out.query.where) : search.out.query.where[i].atoms = <<"expInWindow">>

-----------------------------------------------------------------------------
(* Properties of the schema metadata cache *)

\* C10: whatever the number of concurrent and sequential calls to getDomainsTableMeta,
\* including calls made while the first catalog query is still running, and whether that
\* query succeeds or fails, the catalog query is issued at most once and every caller
\* receives the same metadata.
C10_SingleFlight ==
    /\ catalogQueries <= 1
    /\ \A c1, c2 \in Callers : (caller[c1].has /\ caller[c2].has) => caller[c1].got = caller[c2].got
    /\ \A c \in Callers : caller[c].has => caller[c].got = settleCatalog(catalogOutcome)

\* every caller has called twice and received metadata, after a failed catalog query
C10_Witness ==
    /\ ~catalogOutcome.ok
    /\ catalogQueries = 1
    /\ \A c \in Callers : caller[c].has /\ caller[c].calls = MaxCalls /\ caller[c].pc = "idle"

-----------------------------------------------------------------------------
(* Properties of the check endpoint *)

FifteenMinutes == 15 * 60 * 1000

ErrorFree(value) == value.spamhaus.error = "" /\ value.wayback.error = ""

\* the step receives a check request
Arrival == arrivals' = arrivals + 1

\* the event of a request whose merged result was produced
Merged(e) == e.kind = "response" /\ e.status = 200 /\ ~e.cached

\* the cache holds an entry of domain d younger than 15 minutes
HoldsFresh(d) == checkCache[d].has /\ now - checkCache[d].ts < FifteenMinutes

\* C6 (as claimed, its last part): the check that follows a check of the same domain whose
\* merged result carried an error dispatches the remote checks again.
C6_ErrorForcesDispatch ==
    [][(/\ Merged(lastEvent)
        /\ ~ErrorFree(lastEvent.value)
        /\ Arrival
        /\ lastEvent'.domain = lastEvent.domain) => lastEvent'.kind = "dispatch"]_vars

\* C6 (amended): no entry of the check cache ever holds a merged result with an error on either
\* branch; a check whose merged result carries an error leaves the check cache unchanged; the
\* next check of that domain dispatches the remote checks again unless the cache holds an entry
\* younger than 15 minutes that another check of the domain stored.
C6_NoErrorCached ==
    /\ [](\A d \in Domains : checkCache[d].has => ErrorFree(checkCache[d].value))
    /\ [][(Merged(lastEvent') /\ ~ErrorFree(lastEvent'.value)) => checkCache' = checkCache]_vars
    /\ [][(/\ Merged(lastEvent)
           /\ ~ErrorFree(lastEvent.value)
           /\ Arrival
           /\ lastEvent'.domain = lastEvent.domain)
          => (lastEvent'.kind = "dispatch" \/ HoldsFresh(lastEvent.domain))]_vars

\* a check ended with an error on its spamhaus branch and the cache holds nothing of its domain
C6_Witness ==
    /\ Merged(lastEvent)
    /\ lastEvent.value.spamhaus.error # ""
    /\ ~lastEvent.stored
    /\ ~checkCache[lastEvent.domain].has

\* C7: an error-free merged result is stored with the time of its completion; a check of domain
\* d arriving less than 15 minutes after the entry of d was stored answers with cached: true
\* and the stored value and issues no login, Spamhaus or Wayback call; a check arriving 15
\* minutes or more after it is not answered from the entry.
C7_CacheHitWithin15Min ==
    /\ [][(Merged(lastEvent') /\ ErrorFree(lastEvent'.value)) =>
             checkCache'[lastEvent'.domain] = [has |-> TRUE, ts |-> now, value |-> lastEvent'.value]]_vars
    /\ [][(Arrival /\ lastEvent'.domain # "") =>
             IF HoldsFresh(lastEvent'.domain)
             THEN /\ lastEvent'.kind = "response"
                  /\ lastEvent'.status = 200
                  /\ lastEvent'.cached
                  /\ lastEvent'.value = checkCache[lastEvent'.domain].value
                  /\ lastEvent'.issued = {}
                  /\ req' = req
                  /\ logins' = logins
                  /\ checkCache' = checkCache
             ELSE lastEvent'.kind = "dispatch" /\ ~lastEvent'.cached]_vars

\* a check was answered from an entry stored 14 minutes earlier
C7_Witness ==
    /\ lastEvent.kind = "response"
    /\ lastEvent.cached
    /\ now - checkCache[lastEvent.domain].ts = 14 * 60 * 1000

\* a token is cached and now is before its expiry less 60 s
CachedTokenUsable == spamhausIntelAuth.set /\ now < spamhausIntelAuth.expiresAtMs - 60 * 1000

\* C8 (as claimed, its last part): after a 401/403 answer cleared the token, the next check that
\* reaches the Spamhaus branch performs a login call.
C8_NextCheckLogsIn ==
    [][(cfg = "login" /\ reauthDue /\ lastEvent'.kind = "dispatch") =>
          logins' = logins + 1 /\ req'[lastEvent'.r].sp = "login"]_vars

\* C8 (amended): with login credentials and no static key, a 401 or 403 answer of the lookup
\* clears the cached token and the spamhaus branch reports an error without another lookup or
\* login in that request; the next check that reaches the Spamhaus branch performs a login
\* before its lookup, unless a login that was already in flight has since cached a new token
\* that is still usable.
C8_AuthFailureClearsToken ==
    /\ [][(cfg = "login" /\ lastEvent'.lookup \in {401, 403}) =>
             /\ ~spamhausIntelAuth'.set
             /\ reauthDue'
             /\ logins' = logins
             /\ req'[lastEvent'.r].sp \in {"done", "none"}
             /\ \A r \in Reqs : req'[r].sp = "lookup" => req[r].sp = "lookup"
             /\ IF req'[lastEvent'.r].sp = "done"
                THEN req'[lastEvent'.r].spamhaus.error # ""
                ELSE Merged(lastEvent') /\ lastEvent'.value.spamhaus.error # "" /\ ~lastEvent'.stored]_vars
    /\ [][(cfg = "login" /\ reauthDue /\ lastEvent'.kind = "dispatch") =>
             IF CachedTokenUsable
             THEN logins' = logins /\ req'[lastEvent'.r].token = spamhausIntelAuth.token
             ELSE logins' = logins + 1 /\ req'[lastEvent'.r].sp = "login"]_vars
    /\ [][\A r \in Reqs : (cfg = "login" /\ req'[r].sp = "lookup" /\ req[r].sp # "lookup") =>
             \/ req[r].sp = "login" /\ lastEvent'.kind = "login" /\ spamhausIntelAuth'.token = req'[r].token
             \/ req[r].sp = "none" /\ spamhausIntelAuth.set /\ req'[r].token = spamhausIntelAuth.token]_vars

\* a lookup was answered 401 or 403 and the token obtained by login is gone
C8_Witness ==
    /\ cfg = "login"
    /\ lastEvent.lookup \in {401, 403}
    /\ logins >= 1
    /\ ~spamhausIntelAuth.set
    /\ reauthDue

\* C9 (as claimed, its "every other case"): without a static credential, a call that does not
\* return the cached token performs a login.
C9_LoginInEveryOtherCase ==
    [][(lastEvent'.kind = "dispatch" /\ cfg # "api_key" /\ ~CachedTokenUsable) => logins' = logins + 1]_vars

\* C9 (amended): with a static credential no login is ever performed; with a username and a
\* password, the cached token is returned without a login exactly when a token is cached and
\* now < expiresAt - 60 s, and otherwise a login is performed, which on success replaces the
\* cached token, expiring at the declared expiry or 23 h after the login when none is declared,
\* and on failure leaves the cached token state unchanged; with no credentials at all no login
\* is performed and no token is returned.
C9_TokenSource ==
    /\ [](cfg \in {"api_key", "missing"} => logins = 0 /\ ~spamhausIntelAuth.set)
    /\ [][lastEvent'.kind = "dispatch" =>
             CASE cfg = "api_key" ->
                    req'[lastEvent'.r].sp = "lookup" /\ req'[lastEvent'.r].token = StaticToken
               [] cfg = "missing" ->
                    req'[lastEvent'.r].sp = "done" /\ req'[lastEvent'.r].token = ""
               [] cfg = "login" ->
                    IF CachedTokenUsable
                    THEN /\ logins' = logins
                         /\ req'[lastEvent'.r].sp = "lookup"
                         /\ req'[lastEvent'.r].token = spamhausIntelAuth.token
                    ELSE /\ logins' = logins + 1
                         /\ req'[lastEvent'.r].sp = "login"]_vars
    /\ [][lastEvent'.kind = "login" =>
             /\ spamhausIntelAuth'.set
             /\ spamhausIntelAuth'.token = req[lastEvent'.r].token
             /\ spamhausIntelAuth'.token # spamhausIntelAuth.token
             /\ spamhausIntelAuth'.expiresAtMs =
                   IF lastEvent'.expires # 0 THEN lastEvent'.expires * 1000 ELSE now + 23 * 60 * 60 * 1000]_vars
    /\ [][\A r \in Reqs : (req[r].sp = "login" /\ req'[r].sp # "login" /\ lastEvent'.kind # "login") =>
             /\ spamhausIntelAuth' = spamhausIntelAuth
             /\ lastEvent'.kind = "response"
             /\ lastEvent'.status = 500]_vars

\* a cached token within 60 s of its expiry was not used: the check logs in again
C9_Witness ==
    /\ cfg = "login"
    /\ lastEvent.kind = "dispatch"
    /\ spamhausIntelAuth.set
    /\ now < spamhausIntelAuth.expiresAtMs
    /\ now >= spamhausIntelAuth.expiresAtMs - 60 * 1000
    /\ req[lastEvent.r].sp = "login"


\* the login calls awaiting their answer
LoginsInFlight == { r \in Reqs : req[r].sp = "login" }

\* C11 (as claimed): check requests that concurrently find no usable cached token share one
\* login call: at most one login call is in flight at any time.
C11_LoginNotDuplicated == Cardinality(LoginsInFlight) <= 1

\* two check requests each await a login call of their own
C11_Witness ==
    /\ cfg = "login"
    /\ Cardinality(LoginsInFlight) = 2
    /\ logins = 2
    /\ \A r1, r2 \in LoginsInFlight : r1 # r2 => req[r1].token # req[r2].token

\* what a remote call answers when it failed transiently through its retries: it threw
\* (status 0: timeout or transport error) or the last answer was a 5xx / 429
TransientStatus == {0, 500}

\* the step sent an error response for a request with a valid domain
ErrorResponse(e) == e.kind = "response" /\ e.domain # "" /\ e.status # 200

\* C12 (as claimed): a login, lookup or Wayback call that failed transiently never makes the
\* request answer with an error response; when the step completes the request, the merged
\* result is sent.
C12_TransientFailureNeverFailsRequest ==
    [][\A r \in Reqs :
          /\ \A o \in LoginOutcomes :
                (o.status \in TransientStatus /\ LoginResponse(r, o)) => ~ErrorResponse(lastEvent')
          /\ \A status \in LookupOutcomes :
                (status \in TransientStatus /\ LookupResponse(r, status)) => ~ErrorResponse(lastEvent')
          /\ \A o \in WaybackOutcomes :
                (o.avail = "failed" /\ WaybackResponse(r, o)) => ~ErrorResponse(lastEvent')]_vars

\* a check of a valid domain was answered 500 while the cache holds nothing of that domain
C12_Witness ==
    /\ cfg = "login"
    /\ ErrorResponse(lastEvent)
    /\ lastEvent.status = 500
    /\ ~checkCache[lastEvent.domain].has

\* C13 (as claimed): when the Wayback calls failed, the wayback branch carries an error and the
\* merged result is not stored.
C13_WaybackFailureIsError ==
    [][\A r \in Reqs : \A o \in WaybackOutcomes :
          (o.avail = "failed" /\ o.rows < 0 /\ WaybackResponse(r, o)) =>
             IF Merged(lastEvent')
             THEN lastEvent'.value.wayback.error # "" /\ ~lastEvent'.stored /\ checkCache' = checkCache
             ELSE req'[r].wayback.error # ""]_vars

\* the cache holds a merged result whose wayback branch came from failed Wayback calls
C13_Witness ==
    \E d \in Domains :
        /\ checkCache[d].has
        /\ checkCache[d].value.wayback = waybackResult([avail |-> "failed", rows |-> 0 - 1])
        /\ checkCache[d].value.wayback.error = ""

\* the claim's test on a submitted domain: scheme, path/query/fragment and port stripped, dots
\* trimmed, lowercased, it does not match ^[a-z0-9.-]+$ or holds no dot
RejectedByClaim(input) ==
    LET noScheme == StripProtocol(input)
        host == BeforeFirst(BeforeFirst(BeforeFirst(BeforeFirst(noScheme, "/"), "?"), "#"), ":")
        x == ToLower(TrimRightDots(TrimLeftDots(host)))
    IN  ~IsDomainText(x) \/ ~Contains(x, ".")

ClaimedRejected == { input \in DOMAIN DomainOf : RejectedByClaim(input) }

-----------------------------------------------------------------------------
(* Further properties of the search endpoint *)

\* C18 (as claimed): whatever the table metadata, a search that the database answers completes
\* with a result, not with an error response.
C18_MissingColumnNeverFatal == (search.done /\ search.db.ok) => search.out.res.status = 200

\* a search on the empty-column metadata was answered 500 although the database answers
C18_Witness ==
    /\ search.done
    /\ search.db.ok
    /\ meta.columns = <<>>
    /\ search.out.res.status = 500
    /\ search.out.error = "No domain column found"

\* the placeholder numbers referenced by a token sequence
PlaceholdersOf(toks) == { toks[i].n : i \in { j \in 1..Len(toks) : toks[j].k = "ph" } }

\* the placeholder numbers referenced by the WHERE fragments
WherePlaceholders(where) == UNION { PlaceholdersOf(where[i].toks) : i \in 1..Len(where) }

\* the placeholder that follows the keyword kw in a statement, 0 when there is none
PlaceholderAfter(stmt, kw) ==
    LET at == { i \in 1..(Len(stmt) - 1) : stmt[i].k = "sql" /\ stmt[i].s = kw /\ stmt[i + 1].k = "ph" }
    IN  IF at = {} THEN 0 ELSE stmt[(CHOOSE i \in at : TRUE) + 1].n

\* C19: after compilation the placeholders referenced by the WHERE fragments are exactly
\* 1..n, n the length of the bound parameter list; the COUNT statement references the same
\* placeholders and binds the n values; the paginated SELECT references them and binds LIMIT
\* at placeholder n + 1 and OFFSET at n + 2, with n + 2 values.
C19_PlaceholdersMatchValues ==
    Compiled =>
        LET q == search.out.query
            n == Len(q.values)
        IN  /\ WherePlaceholders(q.where) = 1..n
            /\ PlaceholdersOf(q.countSql) = 1..n
            /\ PlaceholdersOf(q.listSql) = 1..(n + 2)
            /\ PlaceholderAfter(q.listSql, " ASC LIMIT ") = n + 1
            /\ PlaceholderAfter(q.listSql, " OFFSET ") = n + 2
            /\ Len(q.listValues) = n + 2
            /\ SubSeq(q.listValues, 1, n) = q.values

\* a statement with two bound values in which two WHERE fragments reference the same placeholder
C19_Witness ==
    /\ Compiled
    /\ Len(search.out.query.values) = 2
    /\ \E i, j \in 1..Len(search.out.query.where) :
          /\ i # j
          /\ PlaceholdersOf(search.out.query.where[i].toks) = PlaceholdersOf(search.out.query.where[j].toks)
          /\ PlaceholdersOf(search.out.query.where[i].toks) # {}

-----------------------------------------------------------------------------
(* Properties of the remote calls and of the awaits *)

\* the call has ended: it returned { res, text, json } or threw
Settled == fetch.pc \in {"returned", "threw"}

\* what the claim lets a retry follow: a 5xx or 429 answer, a transport failure or a timeout
RetryCause(outcome) ==
    outcome.kind \in {"error", "timeout"} \/ outcome.status \in 500..599 \/ outcome.status = 429

\* the retry policy of C14: at most 2 retries, 3 attempts; the i-th retry follows a backoff
\* of 250 ms x 2^(i-1) and an attempt that met a retry cause; an attempt that met any other
\* answer is the last one
RetryPolicy ==
    /\ fetch.retries <= 2
    /\ fetch.attempt <= fetch.retries
    /\ Len(fetch.outcomes) <= 3
    /\ Len(fetch.slept) = IF fetch.pc = "sleep" THEN fetch.attempt + 1 ELSE fetch.attempt
    /\ \A i \in 1..Len(fetch.slept) :
          /\ fetch.slept[i] = 250 * 2^(i - 1)
          /\ i <= Len(fetch.outcomes)
          /\ RetryCause(fetch.outcomes[i])
    /\ \A i \in 1..Len(fetch.outcomes) :
          ~RetryCause(fetch.outcomes[i]) =>
              /\ i = Len(fetch.outcomes)
              /\ i = fetch.attempt + 1
              /\ fetch.pc \in {"body", "returned"}

\* C14 (as claimed): every remote call keeps the retry policy and always terminates: once
\* called, it returns or throws.
C14_RetriesBoundedAndTerminates ==
    /\ []RetryPolicy
    /\ (fetch.pc # "idle") ~> Settled

\* a call with 2 retries whose three attempts met a timeout, a 500 and a 200 awaits the body of
\* the last answer, after backoffs of 250 ms and 500 ms
C14_Witness ==
    /\ fetch.retries = 2
    /\ fetch.outcomes = <<TimedOut, Answered(500), Answered(200)>>
    /\ fetch.slept = <<250, 500>>
    /\ fetch.pc = "body"
    /\ ~fetch.timer

\* C15 (as claimed): once the timeout error has been raised for an attempt, no outbound
\* request of that attempt remains in flight.
C15_TimeoutCancelsRequest == \A a \in fetch.timedOut : a \notin fetch.inFlight

\* the first attempt timed out and its request is still in flight while the request of the
\* second attempt is in flight too
C15_Witness ==
    /\ 0 \in fetch.timedOut
    /\ fetch.inFlight = {0, 1}
    /\ fetch.pc = "fetch"
    /\ fetch.attempt = 1

\* C16 (as claimed): every await is bounded by a deadline, so a remote call that received an
\* answer eventually gets through reading its body, and a search request that sent a query
\* eventually sends its response.
C16_EveryAwaitHasDeadline ==
    /\ (fetch.pc \in {"errbody", "body"}) ~> (fetch.pc \in {"sleep", "returned", "threw"})
    /\ (dbq.pc \in {"count", "list"}) ~> (dbq.pc = "responded")

\* a remote call awaits a response body and a search request awaits its SELECT, with no timer
\* armed
C16_Witness ==
    /\ fetch.pc = "body"
    /\ ~fetch.timer
    /\ dbq.pc = "list"


-----------------------------------------------------------------------------
(* Properties of the criteria compiler *)

\* a TLD term as the filter is said to use it: lowercased, its leading dot stripped
NormalizedTld(t) == ToLower(IF StartsWith(t, ".") THEN Tail(t) ELSE t)

\* the WHERE fragments that carry the atomic condition atom
FragsWith(where, atom) == { i \in 1..Len(where) : \E j \in 1..Len(where[i].atoms) : where[i].atoms[j] = atom }

\* C21 (as claimed): for a non-empty TLD list, with a TLD column resolved the WHERE list holds
\* exactly one exact-match predicate on that column, bound to the list of the terms lowercased
\* with their leading dot stripped, and no suffix predicate; with no TLD column it holds exactly
\* one case-insensitive suffix predicate on the domain column, bound to one pattern '%.<tld>'
\* per term, the terms normalized the same way, and no exact-match predicate.
C21_TldPredicate ==
    (Compiled /\ Len(splitList(search.body.criteria["tld"])) > 0) =>
        LET q == search.out.query
            tlds == splitList(search.body.criteria["tld"])
            norm == [i \in 1..Len(tlds) |-> NormalizedTld(tlds[i])]
            exact == FragsWith(q.where, "tldExact")
            suffix == FragsWith(q.where, "tldSuffix")
        IN  IF search.cols.tldColumn # NoString
            THEN /\ Cardinality(exact) = 1
                 /\ suffix = {}
                 /\ \A i \in exact :
                       /\ Render(q.where[i].toks) =
                              quoteIdent(search.cols.tldColumn) \o " = ANY(" \o PlaceholderOf(q.where[i]) \o "::text[])"
                       /\ BoundValue(q.where[i], q.values) = PArr(norm)
            ELSE /\ Cardinality(suffix) = 1
                 /\ exact = {}
                 /\ \A i \in suffix :
                       /\ Render(q.where[i].toks) =
                              "LOWER(" \o quoteIdent(search.cols.domainColumn) \o ") LIKE ANY("
                              \o PlaceholderOf(q.where[i]) \o "::text[])"
                       /\ BoundValue(q.where[i], q.values) = PArr([k \in 1..Len(norm) |-> "%." \o norm[k]])

\* the list '.COM, net' on a table with a column tld: the exact-match predicate is bound to
\* the terms as they were typed
C21_Witness ==
    /\ Compiled
    /\ search.cols.tldColumn = "tld"
    /\ search.body.criteria["tld"] = Str(".COM, net")
    /\ \E i \in FragsWith(search.out.query.where, "tldExact") :
          BoundValue(search.out.query.where[i], search.out.query.values) = PArr(<<".COM", "net">>)

\* the suffix fallback of C21 alone: with no TLD column, one suffix predicate on the domain
\* column bound to one normalized pattern per term
TldFallbackNormalizes ==
    (Compiled /\ Len(splitList(search.body.criteria["tld"])) > 0 /\ search.cols.tldColumn = NoString) =>
        \A i \in FragsWith(search.out.query.where, "tldSuffix") :
            BoundValue(search.out.query.where[i], search.out.query.values) =
                PArr([k \in 1..Len(splitList(search.body.criteria["tld"])) |->
                         "%." \o NormalizedTld(splitList(search.body.criteria["tld"])[k])])

\* a bound of the age range is supplied: it reads as a finite number
AgeSupplied(v) == IsFinite(AgeNumber(v))

\* a supplied bound in whole years, negative values raised to 0
AgeYears(v) == Max(0, Trunc(AgeNumber(v).n))

\* the values bound to the fragments carrying atom, in WHERE order
BoundTo(q, atom) == { BoundValue(q.where[i], q.values) : i \in FragsWith(q.where, atom) }

\* C22: with a creation column resolved, the older-than predicate is bound to the smaller and
\* the younger-than predicate to the larger of the two supplied bounds, each truncated to whole
\* years and raised to 0 when negative, so that minYears <= maxYears; with one bound supplied
\* exactly one predicate is emitted, with none supplied no predicate.
C22_AgeRangeOrdered ==
    (Compiled /\ search.cols.createdColumn # NoString) =>
        LET q == search.out.query
            from == search.body.criteria["ageYearsFrom"]
            to == search.body.criteria["ageYearsTo"]
            nMin == Cardinality(FragsWith(q.where, "ageMin"))
            nMax == Cardinality(FragsWith(q.where, "ageMax"))
        IN  /\ (AgeSupplied(from) /\ AgeSupplied(to)) =>
                   /\ nMin = 1 /\ nMax = 1
                   /\ BoundTo(q, "ageMin") = {PInt(Min(AgeYears(from), AgeYears(to)))}
                   /\ BoundTo(q, "ageMax") = {PInt(Max(AgeYears(from), AgeYears(to)))}
                   /\ \A lo \in BoundTo(q, "ageMin") : \A hi \in BoundTo(q, "ageMax") : lo.n <= hi.n
            /\ (AgeSupplied(from) /\ ~AgeSupplied(to)) =>
                   nMin = 1 /\ nMax = 0 /\ BoundTo(q, "ageMin") = {PInt(AgeYears(from))}
            /\ (~AgeSupplied(from) /\ AgeSupplied(to)) =>
                   nMin = 0 /\ nMax = 1 /\ BoundTo(q, "ageMax") = {PInt(AgeYears(to))}
            /\ (~AgeSupplied(from) /\ ~AgeSupplied(to)) => nMin = 0 /\ nMax = 0
            /\ \A v \in BoundTo(q, "ageMin") \cup BoundTo(q, "ageMax") : v.n >= 0

\* ageYearsFrom 7 with ageYearsTo 2 on a table with created_at: the predicates are bound to 2 and 7
C22_Witness ==
    /\ Compiled
    /\ search.cols.createdColumn = "created_at"
    /\ search.body.criteria["ageYearsFrom"] = Num(70)
    /\ search.body.criteria["ageYearsTo"] = Num(20)
    /\ BoundTo(search.out.query, "ageMin") = {PInt(2)}
    /\ BoundTo(search.out.query, "ageMax") = {PInt(7)}

-----------------------------------------------------------------------------
(* Properties of the column role resolver *)

\* the roles of the search endpoint, each with its ordered exact candidates and the
\* alternatives of its fallback regex
RoleTable ==
    [domainColumn |-> <<domainCandidates, {"domain"}>>,
     tldColumn |-> <<tldCandidates, NoRegex>>,
     createdColumn |-> <<createdCandidates, {"creation", "created", "registered", "registration"}>>,
     expiresColumn |-> <<expiresCandidates, {"expiration", "expire", "expires", "expiry"}>>,
     scheduledDeleteColumn |-> <<scheduledDeleteCandidates, {"drop", "delete", "deletion"}>>,
     deletedAtColumn |-> <<deletedAtCandidates, NoRegex>>,
     deletedFlagColumn |-> <<deletedFlagCandidates, NoRegex>>,
     statusColumn |-> <<statusCandidates, NoRegex>>,
     waybackColumn |-> <<waybackCandidates, {"wayback", "archive"}>>,
     spamhausColumn |-> <<spamhausCandidates, {"spamhaus", "spamhouse"}>>,
     viewsTotalColumn |-> <<viewsTotalCandidates, {"viewstotal", "views_total"}>>]

\* the lowercased name of the i-th column of the catalog, as the metadata records it
LowerName(m, i) == CHOOSE k \in DOMAIN m.byName : m.byName[k].column_name = m.columns[i].column_name

\* the column a role is said to resolve to: the one matching the earliest candidate, else the
\* first in catalog order matching the regex, else none
ClaimedColumn(m, cands, re) ==
    LET exact == { i \in 1..Len(cands) : \E c \in 1..Len(m.columns) : LowerName(m, c) = cands[i] }
        like == { c \in 1..Len(m.columns) : MatchesAny(LowerName(m, c), re) }
    IN  IF exact # {}
        THEN LET i == CHOOSE x \in exact : \A y \in exact : x <= y
                 c == CHOOSE x \in 1..Len(m.columns) : LowerName(m, x) = cands[i]
             IN  m.columns[c].column_name
        ELSE IF like # {}
        THEN m.columns[CHOOSE x \in like : \A y \in like : x <= y].column_name
        ELSE NoString

\* C23: for every table metadata and every role, the resolved column is the physical name of
\* the column matching the earliest entry of the role's candidate list, compared
\* case-insensitively; if no candidate matches, the first column in catalog order whose
\* lowercased name matches the role's regex, for the roles that have one; otherwise none.
\* The same columns are resolved whatever the request body holds.
C23_ResolverOrder ==
    search.done =>
        /\ search.cols.domainColumn = ClaimedColumn(meta, RoleTable.domainColumn[1], RoleTable.domainColumn[2])
        /\ Compiled =>
              \A role \in DOMAIN RoleTable :
                  search.cols[role] = ClaimedColumn(meta, RoleTable[role][1], RoleTable[role][2])

\* a table where the orders disagree: spamhaus comes first in the catalog and matches the
\* regex, Spamhaus_Listed matches the earlier candidate and is resolved under its physical
\* name; the domain column is found by the regex alone
C23_Witness ==
    /\ Compiled
    /\ ~ByNameHas(meta, "domain")
    /\ search.cols.domainColumn = "Sub\"Domain"
    /\ ByNameHas(meta, "spamhaus")
    /\ search.cols.spamhausColumn = "Spamhaus_Listed"

-----------------------------------------------------------------------------
(* Further properties of the check endpoint *)

\* the last step received the CDX answer: a JSON array of n >= 1 rows
CdxAnswered == lastEvent.kind \in {"wayback", "response"} /\ lastEvent.cdxRows >= 1

\* C24 (as claimed): for a CDX answer of n >= 1 rows the reported snapshot count is n - 1,
\* shown as the text '10000+' exactly when n - 1 >= 10000 and as the number n - 1 below that.
C24_SnapshotCount ==
    CdxAnswered =>
        lastEvent.value.wayback.snapshots =
            IF lastEvent.cdxRows - 1 >= 10000 THEN Str("10000+") ELSE Num(10 * (lastEvent.cdxRows - 1))

\* a CDX answer of 10000 rows, 9999 snapshots, reported as '10000+'
C24_Witness ==
    /\ CdxAnswered
    /\ lastEvent.cdxRows = 10000
    /\ lastEvent.value.wayback.snapshots = Str("10000+")

\* the count of C24 with the cap where the program applies it: from 9999 snapshots on
SnapshotCountCappedAt9999 ==
    CdxAnswered =>
        lastEvent.value.wayback.snapshots =
            IF lastEvent.cdxRows - 1 >= 9999 THEN Str("10000+") ELSE Num(10 * (lastEvent.cdxRows - 1))

\* C25 (as claimed): a 401/403 answer to a lookup invalidates only the token that lookup
\* sent: when the cached token is another one, cached by a later login, it is still cached
\* after the answer is processed.
C25_AuthFailureSparesNewerToken ==
    [][\A r \in Reqs : \A status \in {401, 403} :
          (/\ LookupResponse(r, status)
           /\ spamhausIntelAuth.set
           /\ spamhausIntelAuth.token # req[r].token)
          => spamhausIntelAuth' = spamhausIntelAuth]_vars

\* two requests: the first sent its lookup with the token of the first login and was just
\* answered 401/403; the second has logged in since and sent its lookup with the token of the
\* second login, which it cached; no token is cached any more
C25_Witness ==
    /\ arrivals = 2
    /\ logins = 2
    /\ lastEvent.kind = "lookup"
    /\ lastEvent.lookup \in {401, 403}
    /\ req[lastEvent.r].token = "login-1"
    /\ \E r2 \in Reqs : req[r2].sp = "lookup" /\ req[r2].token = "login-2"
    /\ ~spamhausIntelAuth.set

-----------------------------------------------------------------------------
(* Properties of the lifecycle filter and of the two resolvers *)

\* no value was given for a criterion
Absent(v) == v.t \in {"undefined", "null"}

\* a lifecycleState that names no lifecycle: absent, blank, or none of the three states
NamesNoLifecycle(v) ==
    Absent(v) \/ ToLower(normalizeString(v)) \notin {"active", "expiring", "deleted"}

\* C26 (as claimed): a lifecycleState that is absent, blank, or none of active / expiring /
\* deleted adds no WHERE fragment and no bound parameter, on every table: the statements
\* and the values are those compiled from the same criteria without the lifecycle criterion.
C26_UnknownLifecycleIsNoFilter ==
    (/\ Compiled
     /\ NamesNoLifecycle(search.body.criteria["lifecycleState"])
     /\ Absent(search.body.criteria["expiredState"])) =>
        search.out.query =
            SearchWith(meta, [search.body EXCEPT !.criteria["lifecycleState"] = Undefined], search.db,
                       search.cols).query

\* lifecycleState 'archived' on a table whose deletion shows in the status column only:
\* the WHERE list holds the deleted-status predicate and its three patterns are bound
C26_Witness ==
    /\ Compiled
    /\ search.body.criteria["lifecycleState"] = Str("archived")
    /\ search.cols.statusColumn = "status"
    /\ search.cols.deletedFlagColumn = NoString
    /\ search.cols.deletedAtColumn = NoString
    /\ FragsWith(search.out.query.where, "statusDeleted") # {}
    /\ search.out.query.values = <<PArr(DeletedPatterns)>>

\* the column names written into a WHERE fragment
IdentsOf(f) == { f.toks[i].s : i \in { j \in 1..Len(f.toks) : f.toks[j].k = "id" } }

\* in a resolution of the roles the scheduled-delete date is a column of its own
ScheduledDeleteApart(cols) ==
    cols.scheduledDeleteColumn # NoString =>
        cols.scheduledDeleteColumn \notin {cols.deletedAtColumn, cols.deletedFlagColumn}

\* C27 (as claimed): on every table, neither endpoint resolves the scheduled-delete-date role
\* to the column it resolves the deleted-at or the deleted-flag role to, and the date window of
\* an 'expiring' filter is never written on the deleted-flag or deleted-at column.
C27_DeleteRolesDistinct ==
    /\ capabilities.done => ScheduledDeleteApart(capabilities.columnsPicked)
    /\ Compiled =>
          /\ ScheduledDeleteApart(search.cols)
          /\ \A i \in FragsWith(search.out.query.where, "schedInWindow") \cup
                      FragsWith(search.out.query.where, "expInWindow") :
                 \A c \in {search.cols.deletedAtColumn, search.cols.deletedFlagColumn} \ {NoString} :
                     quoteIdent(c) \notin IdentsOf(search.out.query.where[i])

\* an 'expiring' search on a table whose only deletion-related column is is_deleted: the
\* column is both the deleted flag and the scheduled-delete date, and the date window is
\* written on it
C27_Witness ==
    /\ Compiled
    /\ ToLower(normalizeString(search.body.criteria["lifecycleState"])) = "expiring"
    /\ search.cols.deletedFlagColumn = "is_deleted"
    /\ search.cols.scheduledDeleteColumn = "is_deleted"
    /\ \E i \in FragsWith(search.out.query.where, "schedInWindow") :
          IdentsOf(search.out.query.where[i]) = {quoteIdent("is_deleted")}

\* C28 (as claimed): on every table, for each of the eleven roles the column reported in
\* columnsPicked by the capabilities endpoint is the column the search endpoint resolves for
\* the role and uses in its filters and projection.
C28_CapabilitiesMatchSearch ==
    (capabilities.done /\ Compiled) =>
        \A role \in DOMAIN RoleTable : capabilities.columnsPicked[role] = search.cols[role]

\* a table with the columns spamhaus and Spamhaus_Listed: capabilities reports spamhaus, the
\* safeSpamhausOnly filter of the search is written on Spamhaus_Listed
C28_Witness ==
    /\ capabilities.done
    /\ Compiled
    /\ capabilities.columnsPicked.spamhausColumn = "spamhaus"
    /\ search.cols.spamhausColumn = "Spamhaus_Listed"
    /\ \E i \in FragsWith(search.out.query.where, "safeSpamhaus") :
          IdentsOf(search.out.query.where[i]) = {quoteIdent("Spamhaus_Listed")}

\* the eight roles both endpoints resolve from the same candidates and regex agree
SharedRolesAgree ==
    (capabilities.done /\ Compiled) =>
        \A role \in DOMAIN RoleTable \ {"waybackColumn", "spamhausColumn", "viewsTotalColumn"} :
            capabilities.columnsPicked[role] = search.cols[role]

====
